---- MODULE Spec2Model ----
(***************************************************************************)
(* Usage accounting and lifecycle review of Marzban-optimize.              *)
(*                                                                         *)
(*   app/jobs/record_usages.py   the two recording jobs                    *)
(*   app/jobs/review_users.py    the lifecycle reviewer                    *)
(*   app/db/crud.py              the persistence operations they call      *)
(*   app/routers/user.py         the admin's operations on users           *)
(*                                                                         *)
(* Every MongoDB call is one atomic step; a coroutine may be interleaved   *)
(* with any other coroutine between two of its awaited calls.              *)
(***************************************************************************)
EXTENDS Integers, Sequences, FiniteSets, TLC

\* ---------------------------------------------------------------- bounds
MaxCycles == 2      \* job runs started by the scheduler, over all jobs
MaxReqs   == 1      \* active-next requests of the admin
MaxUsed   == 3      \* the traffic recorder stops at this used_traffic
MaxRaw    == 1      \* largest raw counter a node reports for one user
MaxNow    == 2      \* last instant of the clock
HourLen   == 2      \* instants per clock hour
CoefDen   == 2      \* usage_coefficient is a multiple of 1/CoefDen
MaxNotes  == 1      \* notifications of one kind for one user

\* Python's None, for the optional integer fields of the documents.
Null == -1

Users       == {"u1", "u2"}
UserOrder   == <<"u1", "u2">>
Master      == "master"                    \* node_id None: the local core
Nodes       == {"n1"}
SourceOrder == <<"master", "n1">>          \* xray.api first, then xray.nodes
Sources     == {Master} \cup Nodes
Admins      == {"a1"}
NoAdmin     == "none"
Cycles      == 1..MaxCycles
Jobs        == {"user", "node", "review"}

\* users.admin_id : u1 is owned by a1, u2 has no owner.
user_admin == [u \in Users |-> IF u = "u1" THEN "a1" ELSE NoAdmin]

VARIABLES
    now,                \* the wall clock
    used_traffic,       \* users.used_traffic
    online_at,          \* users.online_at
    admins_usage,       \* admins.users_usage
    node_user_usages,   \* node_user_usages rows per (user, node, hour)
    node_usages,        \* node_usages rows per (node, hour)
    system,             \* the rows of the system collection
    usage_coefficient,  \* nodes.usage_coefficient, in units of 1/CoefDen
    disable_node_usage, \* config.DISABLE_RECORDING_NODE_USAGE
    running,            \* per job: the cycle whose callback is executing, or 0
    ncycles,            \* callbacks started so far
    utask,              \* the update_users_usage() coroutines, per cycle
    ntask,              \* the update_system_usage() coroutines, per cycle
    status,             \* users.status
    data_limit,         \* users.data_limit
    expire,             \* users.expire
    next_plans,         \* the rows of next_plans per user_id
    xray_users,         \* the users provisioned in the proxy configuration
    rtask,              \* the review() coroutines, per cycle
    areq,               \* the active-next requests being served
    applied,            \* history: how often a next plan was applied to a user
    hold,               \* users.edit_at, created_at, on_hold_timeout, on_hold_expire_duration
    reminders,          \* the rows of notification_reminders
    reset_logs,         \* the rows of user_usage_logs
    notified,           \* per (kind, user): the events handed to notify()
    webhook,            \* config.WEBHOOK_ADDRESS is set
    notify_flags,       \* config.NOTIFY_* : the flag of each notification kind
    xray_failing,       \* the calls to the proxy core fail
    usernames,          \* the usernames that have a row in users
    used0,              \* history: used_traffic at start
    credited,           \* history: scaled deltas of the successful polls
    due                 \* history: deltas handed to record_user_stats per bucket

userDb    == <<used_traffic, online_at>>
nodeDb    == <<node_usages, system>>
dbVars    == <<userDb, admins_usage, node_user_usages, nodeDb>>
cfgVars   == <<usage_coefficient, disable_node_usage, webhook, notify_flags,
               xray_failing, usernames>>
schedVars == <<running, ncycles>>
ghostVars == <<used0, credited, due>>
planDb    == <<status, data_limit, expire, next_plans>>
auxVars   == <<hold, reminders, reset_logs, notified>>
revVars   == <<planDb, xray_users, rtask, areq, applied, auxVars>>
vars      == <<now, dbVars, cfgVars, schedVars, utask, ntask, ghostVars, revVars>>

\* ------------------------------------------------------------ pure helpers
\* The slip of a recording time left untruncated.
HourOfNoTruncation(t) == t

HourOf(t) == t - (t % HourLen)
Hours     == {HourOf(t) : t \in 0..MaxNow}

BucketKeys == Users \X Sources \X Hours

RECURSIVE SumSeq(_)
SumSeq(s) == IF s = <<>> THEN 0 ELSE Head(s) + SumSeq(Tail(s))

\* The slip of a product rounded up.
ScaleIntCeil(value, coef) == (value * coef + CoefDen - 1) \div CoefDen

\* int(value * coefficient): truncation of a non-negative product.
ScaleInt(value, coef) == (value * coef) \div CoefDen

\* value * consumption_factor, left as the float it is: in units of 1/CoefDen.
ScaleRaw(value, coef) == value * coef

\* What a node answers to get_users_stats(reset=True): an XrayError, or one
\* counter per user (zero for a user without traffic).
\* The inputs drawn: a failure, and the counters in which u2 has traffic only
\* when u1 has as much.
PollOutcomes == {[ok |-> FALSE, stats |-> [u \in Users |-> 0]]}
                \cup {[ok |-> TRUE, stats |-> s] :
                         s \in {f \in [Users -> 0..MaxRaw] : f["u2"] <= f["u1"]}}

AllStats(o) == [i \in 1..Len(UserOrder) |->
                   [uid |-> UserOrder[i], value |-> o.stats[UserOrder[i]]]]

NonZero(p) == p.value # 0

\* The slip of counters left unfiltered: zero counters included.
get_users_stats_unfiltered(o) ==
    IF o.ok THEN AllStats(o) ELSE <<>>

get_users_stats(o) ==
    IF o.ok THEN SelectSeq(AllStats(o), NonZero) ELSE <<>>

\* The slip users_usage[uid] = v: the last source overwrites the others.
AddUsageOverwrite(acc, uid, v) ==
    IF \E i \in 1..Len(acc) : acc[i].uid = uid
    THEN [i \in 1..Len(acc) |->
             IF acc[i].uid = uid THEN [uid |-> uid, value |-> v] ELSE acc[i]]
    ELSE Append(acc, [uid |-> uid, value |-> v])

\* users_usage[uid] += v on a dict that keeps insertion order.
AddUsage(acc, uid, v) ==
    IF \E i \in 1..Len(acc) : acc[i].uid = uid
    THEN [i \in 1..Len(acc) |->
             IF acc[i].uid = uid
             THEN [uid |-> uid, value |-> acc[i].value + v] ELSE acc[i]]
    ELSE Append(acc, [uid |-> uid, value |-> v])

RECURSIVE AddParams(_, _, _)
AddParams(acc, params, coef) ==
    IF params = <<>> THEN acc
    ELSE AddParams(AddUsage(acc, Head(params).uid,
                            ScaleInt(Head(params).value, coef)),
                   Tail(params), coef)

\* The sources of api_instances, in dict order.
Polled(api_params) ==
    SelectSeq(SourceOrder, LAMBDA s : s \in DOMAIN api_params)

\* The slip of a merge that stops at the first source without params, as it
\* would if the failure of a poll were left to propagate.
RECURSIVE MergeFromAbort(_, _, _, _)
MergeFromAbort(acc, order, api_params, coefs) ==
    IF order = <<>> \/ api_params[Head(order)] = <<>> THEN acc
    ELSE MergeFromAbort(AddParams(acc, api_params[Head(order)],
                                  coefs[Head(order)]),
                        Tail(order), api_params, coefs)

RECURSIVE MergeFrom(_, _, _, _)
MergeFrom(acc, order, api_params, coefs) ==
    IF order = <<>> THEN acc
    ELSE MergeFrom(AddParams(acc, api_params[Head(order)], coefs[Head(order)]),
                   Tail(order), api_params, coefs)

MergeUsage(api_params, coefs) ==
    MergeFrom(<<>>, Polled(api_params), api_params, coefs)

\* admin_usage[admin_id] += value for the users that have an owner.
RECURSIVE AdminUsage(_, _, _)
\* The slip of admin totals that are never summed.
AdminUsageNone(acc, users_usage, admin_map) == acc

AdminUsage(acc, users_usage, admin_map) ==
    IF users_usage = <<>> THEN acc
    ELSE LET uu == Head(users_usage)
             a  == admin_map[uu.uid]
         IN  AdminUsage(IF a # NoAdmin THEN AddUsage(acc, a, uu.value) ELSE acc,
                        Tail(users_usage), admin_map)

\* The collection without its unique index: every insert is accepted.
CanInsertNoIndex(rows) == TRUE

\* The unique index on (created_at, user_id, node_id): an insert is accepted
\* only when no row holds the key.
CanInsert(rows) == rows = <<>>

\* update_one({key}, {$inc: ...}): the first matching row, none when absent.
IncFirst(rows, d) ==
    IF rows = <<>> THEN rows ELSE <<Head(rows) + d>> \o Tail(rows)

\* ------------------------------------------------------------------ tasks
IdleU == [pc |-> "idle", api_params |-> <<>>, coef |-> <<>>,
          users_usage |-> <<>>, admin_usage |-> <<>>, i |-> 0, k |-> 0,
          created_at |-> 0, to_insert |-> {}, failed |-> {}]

Live(t) == t.pc \notin {"idle", "done", "error"}

\* The slip of a coroutine that never returns.
FinishedNever(how) == [IdleU EXCEPT !.pc = "hung"]

\* A coroutine that returned ("done") or raised ("error"): its locals are gone.
Finished(how) == [IdleU EXCEPT !.pc = how]

\* The next source, from position k of the task's api_params on, whose
\* params are not empty (record_user_stats returns at once on empty params).
NextNode(t, k) ==
    LET order == Polled(t.api_params)
        cand  == {j \in k..Len(order) : t.api_params[order[j]] # <<>>}
    IN  IF cand = {} THEN 0
        ELSE CHOOSE j \in cand : \A j2 \in cand : j <= j2

NodeAt(t) == Polled(t.api_params)[t.k]

\* After db.update_users_usage / db.update_admins_usage.
AfterTotals(t) ==
    IF disable_node_usage \/ NextNode(t, 1) = 0
    THEN Finished("done")
    ELSE [t EXCEPT !.pc = "rus_get", !.k = NextNode(t, 1)]

\* After the last update_node_user_usage of one source.
AfterNode(t) ==
    IF NextNode(t, t.k + 1) = 0
    THEN Finished("done")
    ELSE [t EXCEPT !.pc = "rus_get", !.k = NextNode(t, t.k + 1)]

\* ------------------------------------------------------- node-usage helpers
NodeKeys == Sources \X Hours

\* What a node answers to get_outbounds_stats(reset=True): an XrayError, or
\* the uplink and the downlink counter of its outbound. The inputs drawn have
\* downlink traffic only when there is as much uplink traffic.
OutboundOutcomes ==
    {[ok |-> FALSE, up |-> 0, down |-> 0]}
    \cup {[ok |-> TRUE, up |-> a, down |-> b] :
            <<a, b>> \in {x \in (0..MaxRaw) \X (0..MaxRaw) : x[2] <= x[1]}}

\* One {"up": v, "down": 0} or {"up": 0, "down": v} per non-zero counter.
get_outbounds_stats(o) ==
    IF ~o.ok THEN <<>>
    ELSE (IF o.up # 0 THEN <<[up |-> o.up, down |-> 0]>> ELSE <<>>)
         \o (IF o.down # 0 THEN <<[up |-> 0, down |-> o.down]>> ELSE <<>>)

RECURSIVE TotalOf(_, _, _)
TotalOf(order, api_params, link) ==
    IF order = <<>> THEN 0
    ELSE SumSeq([i \in 1..Len(api_params[Head(order)]) |->
                    IF link = "up" THEN api_params[Head(order)][i].up
                    ELSE api_params[Head(order)][i].down])
         + TotalOf(Tail(order), api_params, link)

IncLinks(rows, up, down) ==
    IF rows = <<>> THEN rows
    ELSE <<[up |-> Head(rows).up + up, down |-> Head(rows).down + down]>>
         \o Tail(rows)

IdleN == [pc |-> "idle", api_params |-> <<>>, total_up |-> 0, total_down |-> 0,
          k |-> 0, i |-> 0, created_at |-> 0]

FinishedN(how) == [IdleN EXCEPT !.pc = how]

\* The first param of update_system_usage()'s loops, and the one after (k, i).
FirstParam(t) ==
    IF NextNode(t, 1) = 0 THEN FinishedN("done")
    ELSE [t EXCEPT !.pc = "rns_find", !.k = NextNode(t, 1), !.i = 1]

NextParam(t) ==
    IF t.i < Len(t.api_params[NodeAt(t)])
    THEN [t EXCEPT !.pc = "rns_find", !.i = t.i + 1]
    ELSE IF NextNode(t, t.k + 1) = 0 THEN FinishedN("done")
         ELSE [t EXCEPT !.pc = "rns_find", !.k = NextNode(t, t.k + 1), !.i = 1]

\* ----------------------------------------------------------- review helpers
Reqs == 1..MaxReqs

Truthy(x) == x # Null /\ x # 0

Max(a, b) == IF a >= b THEN a ELSE b

NoUser == [uid |-> "none", used_traffic |-> 0, data_limit |-> Null,
           expire |-> Null, next_plan |-> FALSE]
NoPlan == [data_limit |-> 0, expire |-> Null, add_remaining_traffic |-> FALSE,
           fire_on_either |-> FALSE]

\* db.get_user / one element of db.get_users: the stored document, with
\* next_plan set when a NextPlan row references the user.
UserDoc(u) == [uid |-> u, used_traffic |-> used_traffic[u],
               data_limit |-> data_limit[u], expire |-> expire[u],
               next_plan |-> next_plans[u] # <<>>]

\* db.get_users(status=...), in the order of the collection.
get_users(st) ==
    LET all == [i \in 1..Len(UserOrder) |-> UserDoc(UserOrder[i])]
    IN  SelectSeq(all, LAMBDA d : status[d.uid] = st)

\* limited = user.data_limit and user.used_traffic >= user.data_limit
Limited(user) == Truthy(user.data_limit) /\ user.used_traffic >= user.data_limit

\* expired = user.expire and user.expire <= now_ts
Expired(user, now_ts) == Truthy(user.expire) /\ user.expire <= now_ts

\* The slip of a decision without its elif branch.
ShouldRolloverEitherOnly(limited, expired, fire_on_either) == fire_on_either

\* if next_plan.fire_on_either: ... elif limited and expired: ...
ShouldRollover(limited, expired, fire_on_either) ==
    fire_on_either \/ (limited /\ expired)

\* The slip of a remainder without its floor at zero.
RemainingNoFloor(user) ==
    IF Truthy(user.data_limit) THEN user.data_limit - user.used_traffic ELSE 0

\* remaining = max(0, user.data_limit - user.used_traffic) if user.data_limit else 0
Remaining(user) ==
    IF Truthy(user.data_limit) THEN Max(0, user.data_limit - user.used_traffic)
    ELSE 0

\* update_data of reset_user_by_next, from the user it was given and the
\* NextPlan document it found. expire = Null: the field is not in $set.
UpdateData(user, plan) ==
    [data_limit   |-> IF plan.add_remaining_traffic
                      THEN plan.data_limit + Remaining(user)
                      ELSE plan.data_limit,
     used_traffic |-> 0,
     expire       |-> plan.expire,
     status       |-> "active"]

IdleR == [pc |-> "idle", now_ts |-> 0, active_users |-> <<>>, idx |-> 0,
          plan |-> NoPlan, new_status |-> "active", th |-> Null,
          on_hold_users |-> <<>>, due_hold |-> {}, second |-> FALSE]
\* A request being served: the user and the plan it read, the admin name it
\* filters by, the users it selected and the rows it answers with.
IdleA == [pc |-> "idle", user |-> NoUser, plan |-> NoPlan,
          admin |-> "", ids |-> {}, resp |-> {}]

FinishedR(how) == [IdleR EXCEPT !.pc = how]
FinishedA(how) == [IdleA EXCEPT !.pc = how]

CurUser(t) == t.active_users[t.idx]

\* One element of db.get_users(status=on_hold): the fields the on-hold loop
\* reads.
HoldDoc(u) == [uid |-> u, online_at |-> online_at[u],
               edit_at |-> hold[u].edit_at, created_at |-> hold[u].created_at,
               on_hold_timeout |-> hold[u].on_hold_timeout,
               on_hold_expire_duration |-> hold[u].on_hold_expire_duration]

get_on_hold_users ==
    LET all == [i \in 1..Len(UserOrder) |-> HoldDoc(UserOrder[i])]
    IN  SelectSeq(all, LAMBDA d : status[d.uid] = "on_hold")

\* The slip of an on-hold decision without its timeout branch.
HoldCondOnlineOnly(user, now_ts) ==
    LET base_timestamp == IF user.edit_at # Null THEN user.edit_at
                          ELSE user.created_at
    IN  user.online_at # Null /\ base_timestamp <= user.online_at

\* base_time = user.edit_at or user.created_at
\* if user.online_at and base_timestamp <= user.online_at.timestamp(): active
\* elif user.on_hold_timeout and (user.on_hold_timeout.timestamp() <= now_ts):
\*     active
\* else: continue
HoldCond(user, now_ts) ==
    LET base_timestamp == IF user.edit_at # Null THEN user.edit_at
                          ELSE user.created_at
    IN  \/ user.online_at # Null /\ base_timestamp <= user.online_at
        \/ user.on_hold_timeout # Null /\ user.on_hold_timeout <= now_ts

CurHold(t) == t.on_hold_users[t.idx]

RECURSIVE AdvanceHold(_, _)
\* The for loop over on_hold_users from its i-th element, up to the next
\* await.
AdvanceHold(t, i) ==
    IF i > Len(t.on_hold_users) THEN FinishedR("done")
    ELSE IF HoldCond(t.on_hold_users[i], t.now_ts)
         THEN [t EXCEPT !.pc = "hold_status", !.idx = i]
         ELSE AdvanceHold(t, i + 1)

\* The on_hold users that satisfy the activation condition at the time t.
DueHold(t) ==
    {u \in Users : status[u] = "on_hold" /\ HoldCond(HoldDoc(u), t)}

\* The slip of testing expired before limited.
OrdinaryExpiredFirst(t, i) ==
    LET user == t.active_users[i]
    IN  [t EXCEPT !.pc = "set_status", !.idx = i, !.plan = NoPlan, !.th = Null,
                  !.new_status = IF Expired(user, t.now_ts) THEN "expired"
                                 ELSE "limited"]

\* if limited: status = limited / elif expired: status = expired
Ordinary(t, i) ==
    LET user == t.active_users[i]
    IN  [t EXCEPT !.pc = "set_status", !.idx = i, !.plan = NoPlan, !.th = Null,
                  !.new_status = IF Limited(user) THEN "limited" ELSE "expired"]

\* config.NOTIFY_REACHED_USAGE_PERCENT and config.NOTIFY_DAYS_LEFT.
PercentThresholds == {50, 75}
DaysThresholds    == {2, 5}

\* calculate_usage_percent and calculate_expiration_days (one instant of the
\* clock is one day).
UsagePercent(used, limit) == (used * 100) \div limit
ExpirationDays(exp, t) == exp - t

\* for percent in sorted(..., reverse=True): if usage_percent >= percent:
\* the threshold the loop stops at, Null when it stops at none.
UsageThreshold(user) ==
    LET reached == IF Truthy(user.data_limit)
                   THEN {p \in PercentThresholds :
                           UsagePercent(user.used_traffic, user.data_limit) >= p}
                   ELSE {}
    IN  IF reached = {} THEN Null
        ELSE CHOOSE p \in reached : \A q \in reached : q <= p

\* for days_left in sorted(...): if expire_days <= days_left
DaysThreshold(user, t) ==
    LET reached == IF Truthy(user.expire)
                   THEN {d \in DaysThresholds : ExpirationDays(user.expire, t) <= d}
                   ELSE {}
    IN  IF reached = {} THEN Null
        ELSE CHOOSE d \in reached : \A e \in reached : d <= e

\* db.get_notification_reminder: is there a live row of the user, the type
\* and the threshold.
LiveReminder(u, type, th) ==
    \E r \in reminders :
        /\ r.uid = u /\ r.type = type /\ r.threshold = th
        /\ (r.expires_at = Null \/ r.expires_at > now)

RECURSIVE Advance(_, _)

\* The `continue` that ends add_notification_reminders' branch of the loop.
AfterRemindersNoContinue(t, i) == Ordinary(t, i)

AfterReminders(t, i) == Advance(t, i + 1)

\* add_notification_reminders from `if user.expire:` on, up to the lookup
\* of the reminder of the days-left threshold reached.
StartDays(t, i) ==
    LET dt == DaysThreshold(t.active_users[i], now)
    IN  IF dt # Null THEN [t EXCEPT !.pc = "rem_days", !.idx = i, !.th = dt]
        ELSE AfterReminders(t, i)

\* add_notification_reminders, up to the lookup of the reminder of the
\* usage threshold reached.
StartReminders(t, i) ==
    LET ut == UsageThreshold(t.active_users[i])
    IN  IF ut # Null THEN [t EXCEPT !.pc = "rem_usage", !.idx = i, !.th = ut]
        ELSE StartDays(t, i)

\* The loop over active_users from position i on, up to its next awaited
\* call: the NextPlan lookup, the status update, a reminder lookup, or the
\* query of the on_hold users. Without WEBHOOK_ADDRESS a user that is
\* neither limited nor expired is passed over.
Advance(t, i) ==
    IF i > Len(t.active_users)
    THEN [t EXCEPT !.pc = "get_on_hold", !.idx = 0, !.plan = NoPlan, !.th = Null]
    ELSE LET user == t.active_users[i]
             lim  == Limited(user)
             exp  == Expired(user, t.now_ts)
         IN  IF (lim \/ exp) /\ user.next_plan
             THEN [t EXCEPT !.pc = "get_plan", !.idx = i, !.plan = NoPlan,
                            !.th = Null]
             ELSE IF lim \/ exp THEN Ordinary(t, i)
             ELSE IF webhook THEN StartReminders(t, i)
             ELSE Advance(t, i + 1)

\* The kinds of event report.py hands to notify(), and their config flags.
NoteKinds == {"limited", "expired", "enabled", "reset_by_next",
              "usage_reset", "usage_percent", "days_left"}
NoNotes   == [k \in NoteKinds \X Users |-> 0]
Flags     == [status_change : BOOLEAN, data_used_reset : BOOLEAN,
              usage_percent : BOOLEAN, days_left : BOOLEAN]
AllOn     == [status_change |-> TRUE, data_used_reset |-> TRUE,
              usage_percent |-> TRUE, days_left |-> TRUE]

\* A user that was never put on hold: created at the start, not edited.
NoHold == [edit_at |-> Null, created_at |-> 0, on_hold_timeout |-> Null,
           on_hold_expire_duration |-> Null]

\* No reminder, no reset log, nothing notified yet; no user was on hold.
InitAux ==
    /\ hold = [u \in Users |-> NoHold]
    /\ reminders = {}
    /\ reset_logs = <<>>
    /\ notified = NoNotes

\* ------------------------------------------------------------------- Init
InitRecording ==
    /\ now = 0
    /\ used0 = [u \in Users |-> IF u = "u1" THEN 1 ELSE 0]
    /\ used_traffic = used0
    /\ online_at = [u \in Users |-> Null]
    /\ admins_usage = [a \in Admins |-> 0]
    /\ node_user_usages = [key \in BucketKeys |-> <<>>]
    /\ usage_coefficient \in
           {c \in [Sources -> {1, CoefDen, 2 * CoefDen}] :
               c[Master] = CoefDen /\ c["n1"] # CoefDen}
    /\ disable_node_usage \in BOOLEAN
    /\ running = [j \in Jobs |-> 0]
    /\ ncycles = 0
    /\ utask = [c \in Cycles |-> IdleU]
    /\ ntask = [c \in Cycles |-> IdleN]
    /\ node_usages = [key \in NodeKeys |-> <<>>]
    /\ system = <<[up |-> 0, down |-> 0]>>
    /\ credited = [u \in Users |-> 0]
    /\ due = [key \in BucketKeys |-> 0]
    /\ status = [u \in Users |-> "active"]
    /\ data_limit = [u \in Users |-> Null]
    /\ expire = [u \in Users |-> Null]
    /\ next_plans = [u \in Users |-> <<>>]
    /\ xray_users = Users
    /\ rtask = [c \in Cycles |-> IdleR]
    /\ areq = [r \in Reqs |-> IdleA]
    /\ applied = [u \in Users |-> 0]
    /\ InitAux
    /\ webhook = FALSE
    /\ xray_failing = FALSE
    /\ usernames = Users
    /\ notify_flags = AllOn

Init == InitRecording

\* ---------------------------------------------------------------- actions
Tick ==
    /\ now < MaxNow
    /\ now' = now + 1
    /\ UNCHANGED <<revVars, dbVars, cfgVars, schedVars, utask, ntask, ghostVars>>

\* The scheduler fires a job: max_instances=1 skips the tick while the
\* job's callback is executing.
JobStart(j) ==
    /\ running[j] = 0
    /\ ncycles < MaxCycles
    /\ ncycles' = ncycles + 1
    /\ running' = [running EXCEPT ![j] = ncycles + 1]
    /\ UNCHANGED <<revVars, now, dbVars, cfgVars, utask, ntask, ghostVars>>

\* record_user_usages(): poll every connected source, merge, and leave the
\* writes to a task created with asyncio.create_task.
RecordUserUsages(conn, res) ==
    LET c           == running["user"]
        api_params  == [s \in {Master} \cup conn |-> get_users_stats(res[s])]
        coefs       == [s \in {Master} \cup conn |-> usage_coefficient[s]]
        users_usage == MergeUsage(api_params, coefs)
        failed      == {s \in {Master} \cup conn : ~res[s].ok}
    IN  /\ c # 0
        /\ running' = [running EXCEPT !["user"] = 0]
        /\ credited' = [u \in Users |->
               credited[u] + SumSeq([i \in 1..Len(SourceOrder) |->
                   IF SourceOrder[i] \in DOMAIN api_params
                      /\ res[SourceOrder[i]].ok
                   THEN ScaleInt(res[SourceOrder[i]].stats[u],
                                 usage_coefficient[SourceOrder[i]])
                   ELSE 0])]
        /\ utask' = IF users_usage = <<>> THEN utask
                    ELSE [utask EXCEPT ![c] =
                             [IdleU EXCEPT !.pc = "map",
                                           !.api_params = api_params,
                                           !.coef = coefs,
                                           !.users_usage = users_usage,
                                           !.failed = failed]]
        /\ UNCHANGED <<revVars, now, dbVars, cfgVars, ncycles, ntask, used0, due>>

\* db.get_user_admin_mapping(), then the admin totals are summed.
U_Map(c) ==
    /\ utask[c].pc = "map"
    /\ utask' = [utask EXCEPT ![c] =
           [utask[c] EXCEPT !.pc = "users", !.i = 1,
               !.admin_usage = AdminUsage(<<>>, utask[c].users_usage, user_admin)]]
    /\ UNCHANGED <<revVars, now, dbVars, cfgVars, schedVars, ntask, ghostVars>>

\* The slip of a $set of the delta in the place of the $inc.
SetUsedTraffic(u, v) == [used_traffic EXCEPT ![u] = v]

\* update_one({_id: uid}, {$inc: {used_traffic: value}, ...})
IncUsedTraffic(u, v) == [used_traffic EXCEPT ![u] = @ + v]

\* db.update_users_usage: one update_one per entry of users_usage.
U_UpdateUser(c) ==
    LET t  == utask[c]
        uu == t.users_usage[t.i]
    IN  /\ t.pc = "users"
        /\ used_traffic' = IncUsedTraffic(uu.uid, uu.value)
        /\ online_at' = [online_at EXCEPT ![uu.uid] = now]
        /\ utask' = [utask EXCEPT ![c] =
               IF t.i < Len(t.users_usage) THEN [t EXCEPT !.i = t.i + 1]
               ELSE IF t.admin_usage # <<>>
                    THEN [t EXCEPT !.pc = "admins", !.i = 1]
                    ELSE AfterTotals(t)]
        /\ UNCHANGED <<revVars, now, admins_usage, node_user_usages, nodeDb, cfgVars,
                       schedVars, ntask, ghostVars>>

\* db.update_admins_usage: one update_one per admin.
U_UpdateAdmin(c) ==
    LET t  == utask[c]
        au == t.admin_usage[t.i]
    IN  /\ t.pc = "admins"
        /\ admins_usage' = [admins_usage EXCEPT ![au.uid] = @ + au.value]
        /\ utask' = [utask EXCEPT ![c] =
               IF t.i < Len(t.admin_usage) THEN [t EXCEPT !.i = t.i + 1]
               ELSE AfterTotals(t)]
        /\ UNCHANGED <<revVars, now, userDb, node_user_usages, nodeDb, cfgVars,
                       schedVars, ntask, ghostVars>>

\* record_user_stats(params, node_id, coefficient) is entered: the hour is
\* read, then db.get_node_user_usages_for_hour gives the uids without a row.
\* (Reading the clock touches nothing another coroutine sees, so it is one
\* step with the query that follows it.)
U_GetExisting(c) ==
    LET t        == utask[c]
        node     == NodeAt(t)
        params   == t.api_params[node]
        hour     == HourOf(now)
        existing == {u \in Users : node_user_usages[<<u, node, hour>>] # <<>>}
        missing  == {params[i].uid : i \in 1..Len(params)} \ existing
    IN  /\ t.pc = "rus_get"
        /\ utask' = [utask EXCEPT ![c] =
               IF missing # {}
               THEN [t EXCEPT !.pc = "rus_create", !.created_at = hour,
                              !.to_insert = missing]
               ELSE [t EXCEPT !.pc = "rus_update", !.created_at = hour, !.i = 1]]
        /\ due' = [key \in BucketKeys |->
               due[key] + SumSeq([i \in 1..Len(params) |->
                   IF key = <<params[i].uid, node, hour>>
                   THEN ScaleRaw(params[i].value, t.coef[node]) ELSE 0])]
        /\ UNCHANGED <<revVars, now, dbVars, cfgVars, schedVars, ntask, used0, credited>>

\* db.create_node_user_usages: insert_many, ordered. The rows ahead of the
\* first duplicate key are inserted, then BulkWriteError is raised and
\* nothing catches it.
U_Create(c) ==
    LET t      == utask[c]
        node   == NodeAt(t)
        key(u) == <<u, node, t.created_at>>
        dups   == {u \in t.to_insert : ~CanInsert(node_user_usages[key(u)])}
    IN  /\ t.pc = "rus_create"
        /\ \E ins \in SUBSET (t.to_insert \ dups) :
              /\ dups = {} => ins = t.to_insert
              /\ node_user_usages' = [k2 \in BucketKeys |->
                     IF k2[1] \in ins /\ k2 = key(k2[1])
                     THEN Append(node_user_usages[k2], 0)
                     ELSE node_user_usages[k2]]
        /\ utask' = [utask EXCEPT ![c] =
               IF dups = {}
               THEN [t EXCEPT !.pc = "rus_update", !.i = 1, !.to_insert = {}]
               ELSE Finished("error")]
        /\ UNCHANGED <<revVars, now, userDb, admins_usage, nodeDb, cfgVars,
                       schedVars, ntask, ghostVars>>

\* db.update_node_user_usage for one entry of params.
U_Update(c) ==
    LET t      == utask[c]
        node   == NodeAt(t)
        params == t.api_params[node]
        p      == params[t.i]
        key    == <<p.uid, node, t.created_at>>
    IN  /\ t.pc = "rus_update"
        /\ node_user_usages' = [node_user_usages EXCEPT ![key] =
               IncFirst(@, ScaleRaw(p.value, t.coef[node]))]
        /\ utask' = [utask EXCEPT ![c] =
               IF t.i < Len(params) THEN [t EXCEPT !.i = t.i + 1]
               ELSE AfterNode(t)]
        /\ UNCHANGED <<revVars, now, userDb, admins_usage, nodeDb, cfgVars,
                       schedVars, ntask, ghostVars>>

UserTaskStep(c) ==
    \/ U_Map(c)
    \/ U_UpdateUser(c)
    \/ U_UpdateAdmin(c)
    \/ U_GetExisting(c)
    \/ U_Create(c)
    \/ U_Update(c)

\* record_node_usages(): poll every connected source, total, and leave the
\* writes to a task created with asyncio.create_task.
RecordNodeUsages(conn, res) ==
    LET c          == running["node"]
        api_params == [s \in {Master} \cup conn |-> get_outbounds_stats(res[s])]
        order      == Polled(api_params)
        total_up   == TotalOf(order, api_params, "up")
        total_down == TotalOf(order, api_params, "down")
    IN  /\ c # 0
        /\ running' = [running EXCEPT !["node"] = 0]
        /\ ntask' = IF total_up = 0 /\ total_down = 0 THEN ntask
                    ELSE [ntask EXCEPT ![c] =
                             [IdleN EXCEPT !.pc = "sys_find",
                                           !.api_params = api_params,
                                           !.total_up = total_up,
                                           !.total_down = total_down]]
        /\ UNCHANGED <<revVars, now, dbVars, cfgVars, ncycles, utask, ghostVars>>

\* db.update_system_usage: find_one({}).
N_SysFind(c) ==
    /\ ntask[c].pc = "sys_find"
    /\ ntask' = [ntask EXCEPT ![c] =
           [ntask[c] EXCEPT !.pc = IF system = <<>> THEN "sys_insert"
                                   ELSE "sys_inc"]]
    /\ UNCHANGED <<revVars, now, dbVars, cfgVars, schedVars, utask, ghostVars>>

\* db.update_system_usage: insert_one when no row was found, $inc otherwise.
N_SysWrite(c) ==
    LET t == ntask[c]
    IN  /\ t.pc \in {"sys_insert", "sys_inc"}
        /\ system' = IF t.pc = "sys_insert"
                     THEN Append(system, [up |-> t.total_up, down |-> t.total_down])
                     ELSE IncLinks(system, t.total_up, t.total_down)
        /\ ntask' = [ntask EXCEPT ![c] =
               IF disable_node_usage THEN FinishedN("done") ELSE FirstParam(t)]
        /\ UNCHANGED <<revVars, now, userDb, admins_usage, node_user_usages, node_usages,
                       cfgVars, schedVars, utask, ghostVars>>

\* record_node_stats(param, node_id) is entered: the hour is read, then
\* db.get_node_usage_for_hour.
N_Find(c) ==
    LET t    == ntask[c]
        hour == HourOf(now)
    IN  /\ t.pc = "rns_find"
        /\ ntask' = [ntask EXCEPT ![c] =
               [t EXCEPT !.created_at = hour,
                         !.pc = IF node_usages[<<NodeAt(t), hour>>] = <<>>
                                THEN "rns_create" ELSE "rns_update"]]
        /\ UNCHANGED <<revVars, now, dbVars, cfgVars, schedVars, utask, ghostVars>>

\* db.create_node_usage: insert_one; DuplicateKeyError is not caught.
N_Create(c) ==
    LET t   == ntask[c]
        key == <<NodeAt(t), t.created_at>>
    IN  /\ t.pc = "rns_create"
        /\ node_usages' = IF CanInsert(node_usages[key])
                          THEN [node_usages EXCEPT ![key] =
                                   Append(@, [up |-> 0, down |-> 0])]
                          ELSE node_usages
        /\ ntask' = [ntask EXCEPT ![c] =
               IF CanInsert(node_usages[key]) THEN [t EXCEPT !.pc = "rns_update"]
               ELSE FinishedN("error")]
        /\ UNCHANGED <<revVars, now, userDb, admins_usage, node_user_usages, system,
                       cfgVars, schedVars, utask, ghostVars>>

\* db.update_node_usage.
N_Update(c) ==
    LET t   == ntask[c]
        key == <<NodeAt(t), t.created_at>>
        p   == t.api_params[NodeAt(t)][t.i]
    IN  /\ t.pc = "rns_update"
        /\ node_usages' = [node_usages EXCEPT ![key] = IncLinks(@, p.up, p.down)]
        /\ ntask' = [ntask EXCEPT ![c] = NextParam(t)]
        /\ UNCHANGED <<revVars, now, userDb, admins_usage, node_user_usages, system,
                       cfgVars, schedVars, utask, ghostVars>>

NodeTaskStep(c) ==
    \/ N_SysFind(c)
    \/ N_SysWrite(c)
    \/ N_Find(c)
    \/ N_Create(c)
    \/ N_Update(c)

\* ----------------------------------------------------------- report.py
\* notify(event): one more event of the kind for the user.
Notify(notes, kind, u) == [notes EXCEPT ![<<kind, u>>] = @ + 1]

\* report.status_change: under NOTIFY_STATUS_CHANGE, the event of the status.
status_change(u, st) ==
    IF ~notify_flags.status_change THEN notified
    ELSE IF st = "limited" THEN Notify(notified, "limited", u)
    ELSE IF st = "expired" THEN Notify(notified, "expired", u)
    ELSE IF st = "active" THEN Notify(notified, "enabled", u)
    ELSE notified

\* report.user_data_reset_by_next: under NOTIFY_USER_DATA_USED_RESET.
user_data_reset_by_next(u) ==
    IF notify_flags.data_used_reset THEN Notify(notified, "reset_by_next", u)
    ELSE notified

\* report.user_data_usage_reset: under NOTIFY_USER_DATA_USED_RESET.
user_data_usage_reset(u) ==
    IF notify_flags.data_used_reset THEN Notify(notified, "usage_reset", u)
    ELSE notified

\* create_notification_reminder(db, type, expires_at, user_id, threshold)
create_notification_reminder(type, expires_at, u, th) ==
    reminders \cup {[uid |-> u, type |-> type, threshold |-> th,
                     expires_at |-> expires_at]}

\* report.data_usage_percent_reached(db, percent, user, user_id, expire,
\* threshold), called as its parameters are declared: under
\* NOTIFY_IF_DATA_USAGE_PERCENT_REACHED, notify and create the reminder.
data_usage_percent_reached(u, exp, th) ==
    IF notify_flags.usage_percent
    THEN [notified  |-> Notify(notified, "usage_percent", u),
          reminders |-> create_notification_reminder(
                           "data_usage", IF Truthy(exp) THEN exp ELSE Null, u, th)]
    ELSE [notified |-> notified, reminders |-> reminders]

\* report.expire_days_reached(db, days, user, user_id, expire, threshold),
\* called as its parameters are declared: notify, then under
\* NOTIFY_IF_DAYS_LEFT_REACHED create the reminder.
expire_days_reached(u, exp, th) ==
    [notified  |-> Notify(notified, "days_left", u),
     reminders |-> IF notify_flags.days_left
                   THEN create_notification_reminder("expiration_date", exp, u, th)
                   ELSE reminders]

\* ----------------------------------------------------------- review actions
recVars == <<admins_usage, node_user_usages, nodeDb, cfgVars, utask, ntask,
             ghostVars>>

\* review_sync(): asyncio.create_task(review()), and the callback returns.
ReviewSync ==
    LET c == running["review"]
    IN  /\ c # 0
        /\ running' = [running EXCEPT !["review"] = 0]
        /\ rtask' = [rtask EXCEPT ![c] = [IdleR EXCEPT !.pc = "get_active"]]
        /\ UNCHANGED <<auxVars, now, userDb, recVars, ncycles, planDb, xray_users, areq,
                       applied>>

\* now = datetime.utcnow(); active_users = await db.get_users(status=active)
R_GetActive(c) ==
    /\ rtask[c].pc = "get_active"
    /\ rtask' = [rtask EXCEPT ![c] =
           Advance([rtask[c] EXCEPT !.now_ts = now,
                                    !.active_users = get_users("active"),
                                    !.due_hold = DueHold(now),
                                    !.second = \E d \in Cycles \ {c} :
                                        rtask[d].pc \in {"done", "error"}], 1)]
    /\ UNCHANGED <<auxVars, now, userDb, recVars, schedVars, planDb, xray_users, areq,
                   applied>>

\* next_plan = await db.get_next_plan_by_user_id(user.id), and the decision.
R_GetPlan(c) ==
    LET t    == rtask[c]
        user == CurUser(t)
        rows == next_plans[user.uid]
    IN  /\ t.pc = "get_plan"
        /\ rtask' = [rtask EXCEPT ![c] =
               IF rows # <<>>
                  /\ ShouldRollover(Limited(user), Expired(user, t.now_ts),
                                    Head(rows).fire_on_either)
               THEN [t EXCEPT !.pc = "rbn_find"]
               ELSE Ordinary(t, t.idx)]
        /\ UNCHANGED <<auxVars, now, userDb, recVars, schedVars, planDb, xray_users, areq,
                       applied>>

\* reset_user_by_next: next_plans_col.find_one. Without a row it returns None
\* and the reviewer goes on to the next user.
R_RbnFind(c) ==
    LET t    == rtask[c]
        rows == next_plans[CurUser(t).uid]
    IN  /\ t.pc = "rbn_find"
        /\ rtask' = [rtask EXCEPT ![c] =
               IF rows = <<>> THEN Advance(t, t.idx + 1)
               ELSE [t EXCEPT !.pc = "rbn_update", !.plan = Head(rows)]]
        /\ UNCHANGED <<auxVars, now, userDb, recVars, schedVars, planDb, xray_users, areq,
                       applied>>

\* users_col.update_one({"_id": user.id}, {"$set": update_data})
SetUser(u, upd) ==
    /\ data_limit' = [data_limit EXCEPT ![u] = upd.data_limit]
    /\ used_traffic' = [used_traffic EXCEPT ![u] = upd.used_traffic]
    /\ expire' = [expire EXCEPT ![u] = IF upd.expire # Null THEN upd.expire ELSE @]
    /\ status' = [status EXCEPT ![u] = upd.status]
    /\ applied' = [applied EXCEPT ![u] = @ + 1]
    /\ UNCHANGED <<online_at, next_plans>>

R_RbnUpdate(c) ==
    LET t == rtask[c]
    IN  /\ t.pc = "rbn_update"
        /\ SetUser(CurUser(t).uid, UpdateData(CurUser(t), t.plan))
        /\ rtask' = [rtask EXCEPT ![c] = [t EXCEPT !.pc = "rbn_delete"]]
        /\ UNCHANGED <<auxVars, now, recVars, schedVars, xray_users, areq>>

\* next_plans_col.delete_one({"user_id": user.id})
R_RbnDelete(c) ==
    LET t == rtask[c]
    IN  /\ t.pc = "rbn_delete"
        /\ next_plans' = [next_plans EXCEPT ![CurUser(t).uid] = <<>>]
        /\ rtask' = [rtask EXCEPT ![c] = [t EXCEPT !.pc = "rbn_refetch"]]
        /\ UNCHANGED <<auxVars, now, userDb, recVars, schedVars, status, data_limit,
                       expire, xray_users, areq, applied>>

\* users_col.find_one: the updated user is returned.
R_RbnRefetch(c) ==
    /\ rtask[c].pc = "rbn_refetch"
    /\ rtask' = [rtask EXCEPT ![c] = [rtask[c] EXCEPT !.pc = "report_reset"]]
    /\ UNCHANGED <<auxVars, now, userDb, recVars, schedVars, planDb, xray_users, areq,
                   applied>>

\* xray.operations.update_user(user), then
\* await report.user_data_reset_by_next(...): the function is a plain def that
\* returns None, so the await raises TypeError and review() ends there.
R_ReportReset(c) ==
    /\ rtask[c].pc = "report_reset"
    /\ xray_users' = xray_users \cup {CurUser(rtask[c]).uid}
    /\ notified' = user_data_reset_by_next(CurUser(rtask[c]).uid)
    /\ rtask' = [rtask EXCEPT ![c] = FinishedR("error")]
    /\ UNCHANGED <<hold, reminders, reset_logs, now, userDb, recVars, schedVars,
                   planDb, areq, applied>>

\* xray.operations.remove_user(user): the user leaves the proxy core unless
\* the call fails.
remove_user(u) == IF xray_failing THEN xray_users ELSE xray_users \ {u}

\* xray.operations.add_user(dbuser=...)
add_user(u) == IF xray_failing THEN xray_users ELSE xray_users \cup {u}

\* The slip of a deprovision call whose failure reaches its caller.
remove_user_raises_on_failure == xray_failing

\* A failed call is logged and not raised to the caller.
remove_user_raises == FALSE

\* The slip of a status written with the user left in the proxy core.
R_SetStatusKeepsUser(c) ==
    LET t == rtask[c]
    IN  /\ t.pc = "set_status"
        /\ status' = [status EXCEPT ![CurUser(t).uid] = t.new_status]
        /\ rtask' = [rtask EXCEPT ![c] = [t EXCEPT !.pc = "report_status"]]
        /\ UNCHANGED <<auxVars, now, userDb, recVars, schedVars, data_limit, expire,
                       next_plans, xray_users, areq, applied>>

\* xray.operations.remove_user(user); await db.update_user_status(user, status)
R_SetStatus(c) ==
    LET t == rtask[c]
    IN  /\ t.pc = "set_status"
        /\ xray_users' = remove_user(CurUser(t).uid)
        /\ status' = IF remove_user_raises THEN status
                     ELSE [status EXCEPT ![CurUser(t).uid] = t.new_status]
        /\ rtask' = [rtask EXCEPT ![c] =
               IF remove_user_raises THEN FinishedR("error")
               ELSE [t EXCEPT !.pc = "report_status"]]
        /\ UNCHANGED <<auxVars, now, userDb, recVars, schedVars, data_limit, expire,
                       next_plans, areq, applied>>

\* await report.status_change(...): a plain def again, TypeError.
R_ReportStatus(c) ==
    /\ rtask[c].pc = "report_status"
    /\ notified' = status_change(CurUser(rtask[c]).uid, rtask[c].new_status)
    /\ rtask' = [rtask EXCEPT ![c] = FinishedR("error")]
    /\ UNCHANGED <<hold, reminders, reset_logs, now, userDb, recVars, schedVars,
                   planDb, xray_users, areq, applied>>

\* on_hold_users = await db.get_users(status=on_hold), and the loop over them.
R_GetOnHold(c) ==
    /\ rtask[c].pc = "get_on_hold"
    /\ rtask' = [rtask EXCEPT ![c] =
           AdvanceHold([rtask[c] EXCEPT !.on_hold_users = get_on_hold_users], 1)]
    /\ UNCHANGED <<auxVars, now, userDb, recVars, schedVars, planDb, xray_users, areq,
                   applied>>

\* await db.update_user_status(user, status), status = active
R_HoldStatus(c) ==
    LET t == rtask[c]
    IN  /\ t.pc = "hold_status"
        /\ status' = [status EXCEPT ![CurHold(t).uid] = "active"]
        /\ rtask' = [rtask EXCEPT ![c] = [t EXCEPT !.pc = "hold_expire"]]
        /\ UNCHANGED <<auxVars, now, userDb, recVars, schedVars, data_limit, expire,
                       next_plans, xray_users, areq, applied>>

\* await db.start_user_expire(user): expire is on_hold_expire_duration from
\* now.
R_HoldExpire(c) ==
    LET t    == rtask[c]
        user == CurHold(t)
    IN  /\ t.pc = "hold_expire"
        /\ expire' = IF user.on_hold_expire_duration = Null THEN expire
                     ELSE [expire EXCEPT ![user.uid] =
                              now + user.on_hold_expire_duration]
        /\ rtask' = [rtask EXCEPT ![c] = [t EXCEPT !.pc = "hold_report"]]
        /\ UNCHANGED <<auxVars, now, userDb, recVars, schedVars, status, data_limit,
                       next_plans, xray_users, areq, applied>>

\* await report.status_change(...): the notification is handed over, the
\* await of its None raises TypeError and review() ends.
R_HoldReport(c) ==
    /\ rtask[c].pc = "hold_report"
    /\ notified' = status_change(CurHold(rtask[c]).uid, "active")
    /\ rtask' = [rtask EXCEPT ![c] = FinishedR("error")]
    /\ UNCHANGED <<hold, reminders, reset_logs, now, userDb, recVars, schedVars,
                   planDb, xray_users, areq, applied>>

HoldStep(c) ==
    \/ R_HoldStatus(c)
    \/ R_HoldExpire(c)
    \/ R_HoldReport(c)

\* existing_reminder = await db.get_notification_reminder(.., data_usage, ..)
\* With a live row the loop breaks and the days-left part follows. Without
\* one, report.data_usage_percent_reached(usage_percent, UserResponse, str(
\* user.id), user.expire, threshold=percent) is called: its parameters are
\* (db, percent, user, user_id, ...), so `user` is the str and
\* user.username raises AttributeError ahead of notify(); with the flag off
\* it returns None and the await raises TypeError. review() ends, nothing
\* was dispatched and no reminder row was written.
R_RemUsage(c) ==
    LET t == rtask[c]
    IN  /\ t.pc = "rem_usage"
        /\ rtask' = [rtask EXCEPT ![c] =
               IF LiveReminder(CurUser(t).uid, "data_usage", t.th)
               THEN StartDays(t, t.idx)
               ELSE FinishedR("error")]
        /\ UNCHANGED <<auxVars, now, userDb, recVars, schedVars, planDb,
                       xray_users, areq, applied>>

\* existing_reminder = await db.get_notification_reminder(.., expiration_date,
\* ..). With a live row the loop breaks. Without one,
\* report.expire_days_reached(expire_days, UserResponse, str(user.id),
\* user.expire, threshold=days_left) lacks the required parameter `expire`:
\* TypeError, review() ends.
R_RemDays(c) ==
    LET t == rtask[c]
    IN  /\ t.pc = "rem_days"
        /\ rtask' = [rtask EXCEPT ![c] =
               IF LiveReminder(CurUser(t).uid, "expiration_date", t.th)
               THEN AfterReminders(t, t.idx)
               ELSE FinishedR("error")]
        /\ UNCHANGED <<auxVars, now, userDb, recVars, schedVars, planDb,
                       xray_users, areq, applied>>

ReviewStep(c) ==
    \/ R_GetActive(c)
    \/ R_GetPlan(c)
    \/ R_RbnFind(c)
    \/ R_RbnUpdate(c)
    \/ R_RbnDelete(c)
    \/ R_RbnRefetch(c)
    \/ R_ReportReset(c)
    \/ R_SetStatus(c)
    \/ R_ReportStatus(c)
    \/ R_GetOnHold(c)

\* POST /user/{username}/active-next: get_validated_user reads the user, and
\* reset_user_by_next returns None (404) for a user without next_plan.
A_Start(r, u) ==
    /\ areq[r].pc = "idle"
    /\ areq' = [areq EXCEPT ![r] =
           IF UserDoc(u).next_plan
           THEN [IdleA EXCEPT !.pc = "rbn_find", !.user = UserDoc(u)]
           ELSE FinishedA("not_found")]
    /\ UNCHANGED <<auxVars, now, userDb, recVars, schedVars, planDb, xray_users, rtask,
                   applied>>

A_RbnFind(r) ==
    LET a    == areq[r]
        rows == next_plans[a.user.uid]
    IN  /\ a.pc = "rbn_find"
        /\ areq' = [areq EXCEPT ![r] =
               IF rows = <<>> THEN FinishedA("not_found")
               ELSE [a EXCEPT !.pc = "rbn_update", !.plan = Head(rows)]]
        /\ UNCHANGED <<auxVars, now, userDb, recVars, schedVars, planDb, xray_users, rtask,
                       applied>>

A_RbnUpdate(r) ==
    LET a == areq[r]
    IN  /\ a.pc = "rbn_update"
        /\ SetUser(a.user.uid, UpdateData(a.user, a.plan))
        /\ areq' = [areq EXCEPT ![r] = [a EXCEPT !.pc = "rbn_delete"]]
        /\ UNCHANGED <<auxVars, now, recVars, schedVars, xray_users, rtask>>

A_RbnDelete(r) ==
    LET a == areq[r]
    IN  /\ a.pc = "rbn_delete"
        /\ next_plans' = [next_plans EXCEPT ![a.user.uid] = <<>>]
        /\ areq' = [areq EXCEPT ![r] = [a EXCEPT !.pc = "rbn_refetch"]]
        /\ UNCHANGED <<auxVars, now, userDb, recVars, schedVars, status, data_limit,
                       expire, xray_users, rtask, applied>>

\* users_col.find_one; then "if not dbuser or not dbuser.next_plan: raise":
\* the user returned has no next plan any more, the handler raises.
A_RbnRefetch(r) ==
    /\ areq[r].pc = "rbn_refetch"
    /\ areq' = [areq EXCEPT ![r] = FinishedA("raised")]
    /\ UNCHANGED <<auxVars, now, userDb, recVars, schedVars, planDb, xray_users, rtask,
                   applied>>

AdminStep(r) ==
    \/ \E u \in Users : A_Start(r, u)
    \/ A_RbnFind(r)
    \/ A_RbnUpdate(r)
    \/ A_RbnDelete(r)
    \/ A_RbnRefetch(r)

\* The recorder, seen from the reviewer: db.update_users_usage credits one
\* unit to a user.
EnvUsage(u) ==
    /\ used_traffic[u] < MaxUsed
    /\ used_traffic' = IncUsedTraffic(u, 1)
    /\ online_at' = [online_at EXCEPT ![u] = now]
    /\ UNCHANGED <<auxVars, now, recVars, schedVars, planDb, xray_users, rtask, areq,
                   applied>>

Plans == [data_limit : {3}, expire : {Null, 5},
          add_remaining_traffic : BOOLEAN, fire_on_either : BOOLEAN]

InitReview ==
    /\ now = MaxNow
    /\ used_traffic = [u \in Users |-> 1]
    /\ used0 = used_traffic
    /\ online_at = [u \in Users |-> Null]
    /\ admins_usage = [a \in Admins |-> 0]
    /\ node_user_usages = [key \in BucketKeys |-> <<>>]
    /\ node_usages = [key \in NodeKeys |-> <<>>]
    /\ system = <<[up |-> 0, down |-> 0]>>
    /\ usage_coefficient = [s \in Sources |-> CoefDen]
    /\ disable_node_usage = FALSE
    /\ running = [j \in Jobs |-> 0]
    /\ ncycles = 0
    /\ utask = [c \in Cycles |-> IdleU]
    /\ ntask = [c \in Cycles |-> IdleN]
    /\ credited = [u \in Users |-> 0]
    /\ due = [key \in BucketKeys |-> 0]
    /\ status = [u \in Users |-> "active"]
    /\ data_limit \in {d \in [Users -> {Null, 2}] : d["u2"] = 2}
    /\ expire \in {e \in [Users -> {Null, 1}] : e["u2"] = Null}
    /\ next_plans \in {n \in [Users -> {<<>>} \cup {<<pl>> : pl \in Plans}] :
                         n["u2"] = <<>>}
    /\ xray_users = Users
    /\ rtask = [c \in Cycles |-> IdleR]
    /\ areq = [r \in Reqs |-> IdleA]
    /\ applied = [u \in Users |-> 0]
    /\ InitAux
    /\ webhook = FALSE
    /\ xray_failing = FALSE
    /\ usernames = Users
    /\ notify_flags = AllOn

NextReview ==
    \/ JobStart("review")
    \/ ReviewSync
    \/ \E c \in Cycles : ReviewStep(c)
    \/ \E r \in Reqs : AdminStep(r)
    \/ EnvUsage("u1")

SpecReview == InitReview /\ [][NextReview]_vars

Next ==
    \/ Tick
    \/ JobStart("user")
    \/ \E conn \in SUBSET Nodes :
         \E res \in [{Master} \cup conn -> PollOutcomes] :
            RecordUserUsages(conn, res)
    \/ \E c \in Cycles : UserTaskStep(c)
    \/ JobStart("node")
    \/ \E conn \in SUBSET Nodes :
         \E res \in [{Master} \cup conn -> OutboundOutcomes] :
            RecordNodeUsages(conn, res)
    \/ \E c \in Cycles : NodeTaskStep(c)

Spec == Init /\ [][Next]_vars

\* ------------------------------------------------ recording, to its end
\* The recording jobs at one instant, with the node at the coefficient 2.
InitTerm ==
    /\ InitRecording
    /\ usage_coefficient["n1"] = 2 * CoefDen

NextTerm ==
    \/ JobStart("user")
    \/ \E conn \in SUBSET Nodes :
         \E res \in [{Master} \cup conn -> PollOutcomes] :
            RecordUserUsages(conn, res)
    \/ \E c \in Cycles : UserTaskStep(c)
    \/ JobStart("node")
    \/ \E conn \in SUBSET Nodes :
         \E res \in [{Master} \cup conn -> OutboundOutcomes] :
            RecordNodeUsages(conn, res)
    \/ \E c \in Cycles : NodeTaskStep(c)

\* The polls return or fail within their timeout (the callback of a started
\* job runs to its end), and the event loop runs every coroutine that is
\* ready: each persistence call returns or fails.
FairTerm ==
    /\ WF_vars(\E conn \in SUBSET Nodes :
                  \E res \in [{Master} \cup conn -> PollOutcomes] :
                     RecordUserUsages(conn, res))
    /\ WF_vars(\E conn \in SUBSET Nodes :
                  \E res \in [{Master} \cup conn -> OutboundOutcomes] :
                     RecordNodeUsages(conn, res))
    /\ \A c \in Cycles : WF_vars(UserTaskStep(c)) /\ WF_vars(NodeTaskStep(c))

SpecTerm == InitTerm /\ [][NextTerm]_vars /\ FairTerm

\* ------------------------------------------ the admin's reset of the usage
\* POST /user/{username}/reset: get_validated_user reads the user.
AR_Start(r, u) ==
    /\ areq[r].pc = "idle"
    /\ areq' = [areq EXCEPT ![r] = [IdleA EXCEPT !.pc = "rst_log",
                                                 !.user = UserDoc(u)]]
    /\ UNCHANGED <<auxVars, now, userDb, recVars, schedVars, planDb, xray_users,
                   rtask, applied>>

\* reset_user_data_usage: user_usage_logs_col.insert_one, with the usage of
\* the user it was given.
AR_Log(r) ==
    LET a == areq[r]
    IN  /\ a.pc = "rst_log"
        /\ reset_logs' = Append(reset_logs,
               [uid |-> a.user.uid,
                used_traffic_at_reset |-> a.user.used_traffic])
        /\ areq' = [areq EXCEPT ![r] = [a EXCEPT !.pc = "rst_update"]]
        /\ UNCHANGED <<hold, reminders, notified, now, userDb, recVars, schedVars,
                       planDb, xray_users, rtask, applied>>

\* reset_user_data_usage: users_col.update_one($set used_traffic 0).
AR_Update(r) ==
    LET a == areq[r]
    IN  /\ a.pc = "rst_update"
        /\ used_traffic' = [used_traffic EXCEPT ![a.user.uid] = 0]
        /\ areq' = [areq EXCEPT ![r] = [a EXCEPT !.pc = "rst_refetch"]]
        /\ UNCHANGED <<auxVars, now, online_at, recVars, schedVars, planDb,
                       xray_users, rtask, applied>>

\* reset_user_data_usage: users_col.find_one; then the handler provisions
\* an active or on_hold user again and reports the reset.
AR_Refetch(r) ==
    LET a == areq[r]
        u == a.user.uid
    IN  /\ a.pc = "rst_refetch"
        /\ xray_users' = IF status[u] \in {"active", "on_hold"}
                         THEN add_user(u) ELSE xray_users
        /\ notified' = user_data_usage_reset(u)
        /\ areq' = [areq EXCEPT ![r] = FinishedA("done")]
        /\ UNCHANGED <<hold, reminders, reset_logs, now, userDb, recVars,
                       schedVars, planDb, rtask, applied>>

ResetStep(r) ==
    \/ \E u \in Users : AR_Start(r, u)
    \/ AR_Log(r)
    \/ AR_Update(r)
    \/ AR_Refetch(r)

\* Two active users with the limit 2 and no next plan; u1 is at its limit or
\* one unit short of it, u2 is short of it.
InitAdmin ==
    /\ now = 0
    /\ used_traffic \in {f \in [Users -> {1, 2}] : f["u2"] = 1}
    /\ used0 = used_traffic
    /\ online_at = [u \in Users |-> Null]
    /\ admins_usage = [a \in Admins |-> 0]
    /\ node_user_usages = [key \in BucketKeys |-> <<>>]
    /\ node_usages = [key \in NodeKeys |-> <<>>]
    /\ system = <<[up |-> 0, down |-> 0]>>
    /\ usage_coefficient = [s \in Sources |-> CoefDen]
    /\ disable_node_usage = FALSE
    /\ running = [j \in Jobs |-> 0]
    /\ ncycles = 0
    /\ utask = [c \in Cycles |-> IdleU]
    /\ ntask = [c \in Cycles |-> IdleN]
    /\ credited = [u \in Users |-> 0]
    /\ due = [key \in BucketKeys |-> 0]
    /\ status = [u \in Users |-> "active"]
    /\ data_limit = [u \in Users |-> 2]
    /\ expire = [u \in Users |-> Null]
    /\ next_plans = [u \in Users |-> <<>>]
    /\ xray_users = Users
    /\ rtask = [c \in Cycles |-> IdleR]
    /\ areq = [r \in Reqs |-> IdleA]
    /\ applied = [u \in Users |-> 0]
    /\ InitAux
    /\ webhook = FALSE
    /\ xray_failing \in BOOLEAN
    /\ usernames = Users
    /\ notify_flags \in {f \in Flags : f.usage_percent /\ f.days_left}

NextAdmin ==
    \/ JobStart("review")
    \/ ReviewSync
    \/ \E c \in Cycles : R_GetActive(c)
    \/ \E c \in Cycles : R_SetStatus(c)
    \/ \E c \in Cycles : R_ReportStatus(c)
    \/ \E c \in Cycles : R_GetOnHold(c)
    \/ \E r \in Reqs : ResetStep(r)
    \/ EnvUsage("u1")

SpecAdmin == InitAdmin /\ [][NextAdmin]_vars

\* -------------------------------------------------- the reviewer and on_hold
\* u1 is on hold with an expire duration of 2, edited at 1 or never, seen
\* online at 0 or never, with a timeout at 1 or none; u2 is on hold with a
\* timeout at 0, or active at or under its limit.
InitHold ==
    /\ now = 0
    /\ used_traffic = [u \in Users |-> 1]
    /\ used0 = used_traffic
    /\ online_at \in {f \in [Users -> {Null, 0}] : f["u2"] = Null}
    /\ admins_usage = [a \in Admins |-> 0]
    /\ node_user_usages = [key \in BucketKeys |-> <<>>]
    /\ node_usages = [key \in NodeKeys |-> <<>>]
    /\ system = <<[up |-> 0, down |-> 0]>>
    /\ usage_coefficient = [s \in Sources |-> CoefDen]
    /\ disable_node_usage = FALSE
    /\ running = [j \in Jobs |-> 0]
    /\ ncycles = 0
    /\ utask = [c \in Cycles |-> IdleU]
    /\ ntask = [c \in Cycles |-> IdleN]
    /\ credited = [u \in Users |-> 0]
    /\ due = [key \in BucketKeys |-> 0]
    /\ status \in {f \in [Users -> {"active", "on_hold"}] : f["u1"] = "on_hold"}
    /\ data_limit \in {f \in [Users -> {1, 2}] : f["u1"] = 2}
    /\ expire = [u \in Users |-> Null]
    /\ next_plans = [u \in Users |-> <<>>]
    /\ xray_users = Users
    /\ rtask = [c \in Cycles |-> IdleR]
    /\ areq = [r \in Reqs |-> IdleA]
    /\ applied = [u \in Users |-> 0]
    /\ \E e \in {Null, 1}, tmo \in {Null, 1} :
          hold = [u \in Users |->
                     IF u = "u1"
                     THEN [NoHold EXCEPT !.edit_at = e, !.on_hold_timeout = tmo,
                                         !.on_hold_expire_duration = 2]
                     ELSE [NoHold EXCEPT !.on_hold_timeout = 0]]
    /\ reminders = {}
    /\ reset_logs = <<>>
    /\ notified = NoNotes
    /\ webhook = FALSE
    /\ xray_failing = FALSE
    /\ usernames = Users
    /\ notify_flags = AllOn

NextHold ==
    \/ Tick
    \/ JobStart("review")
    \/ ReviewSync
    \/ \E c \in Cycles : R_GetActive(c)
    \/ \E c \in Cycles : R_SetStatus(c)
    \/ \E c \in Cycles : R_ReportStatus(c)
    \/ \E c \in Cycles : R_GetOnHold(c)
    \/ \E c \in Cycles : HoldStep(c)
    \/ EnvUsage("u1")

SpecHold == InitHold /\ [][NextHold]_vars

\* --------------------------------------------- the report functions, called
reportFrame == <<hold, reset_logs, now, userDb, recVars, schedVars, planDb,
                 xray_users, rtask, areq, applied>>

CallStatusChange(u, st) ==
    /\ \A k \in {"limited", "expired", "enabled"} : notified[<<k, u>>] < MaxNotes
    /\ notified' = status_change(u, st)
    /\ UNCHANGED <<reminders, reportFrame>>

CallUserDataResetByNext(u) ==
    /\ notified[<<"reset_by_next", u>>] < MaxNotes
    /\ notified' = user_data_reset_by_next(u)
    /\ UNCHANGED <<reminders, reportFrame>>

CallUserDataUsageReset(u) ==
    /\ notified[<<"usage_reset", u>>] < MaxNotes
    /\ notified' = user_data_usage_reset(u)
    /\ UNCHANGED <<reminders, reportFrame>>

CallDataUsagePercentReached(u, th) ==
    /\ notified[<<"usage_percent", u>>] < MaxNotes
    /\ notified' = data_usage_percent_reached(u, expire[u], th).notified
    /\ reminders' = data_usage_percent_reached(u, expire[u], th).reminders
    /\ UNCHANGED reportFrame

CallExpireDaysReached(u, th) ==
    /\ notified[<<"days_left", u>>] < MaxNotes
    /\ expire[u] # Null
    /\ notified' = expire_days_reached(u, expire[u], th).notified
    /\ reminders' = expire_days_reached(u, expire[u], th).reminders
    /\ UNCHANGED reportFrame

\* Any setting of the flags; u1 has an expire, u2 has none.
InitReport ==
    /\ now = 0
    /\ used_traffic = [u \in Users |-> 1]
    /\ used0 = used_traffic
    /\ online_at = [u \in Users |-> Null]
    /\ admins_usage = [a \in Admins |-> 0]
    /\ node_user_usages = [key \in BucketKeys |-> <<>>]
    /\ node_usages = [key \in NodeKeys |-> <<>>]
    /\ system = <<[up |-> 0, down |-> 0]>>
    /\ usage_coefficient = [s \in Sources |-> CoefDen]
    /\ disable_node_usage = FALSE
    /\ running = [j \in Jobs |-> 0]
    /\ ncycles = 0
    /\ utask = [c \in Cycles |-> IdleU]
    /\ ntask = [c \in Cycles |-> IdleN]
    /\ credited = [u \in Users |-> 0]
    /\ due = [key \in BucketKeys |-> 0]
    /\ status = [u \in Users |-> "active"]
    /\ data_limit = [u \in Users |-> 2]
    /\ expire = [u \in Users |-> IF u = "u1" THEN 3 ELSE Null]
    /\ next_plans = [u \in Users |-> <<>>]
    /\ xray_users = Users
    /\ rtask = [c \in Cycles |-> IdleR]
    /\ areq = [r \in Reqs |-> IdleA]
    /\ applied = [u \in Users |-> 0]
    /\ InitAux
    /\ webhook = TRUE
    /\ xray_failing = FALSE
    /\ usernames = Users
    /\ notify_flags \in Flags

NextReport ==
    \/ \E u \in Users, st \in {"limited", "expired", "active"} :
          CallStatusChange(u, st)
    \/ \E u \in Users : CallUserDataResetByNext(u)
    \/ \E u \in Users : CallUserDataUsageReset(u)
    \/ \E u \in Users, th \in PercentThresholds :
          CallDataUsagePercentReached(u, th)
    \/ \E u \in Users, th \in DaysThresholds : CallExpireDaysReached(u, th)

SpecReport == InitReport /\ [][NextReport]_vars

\* ------------------------------------------------ the reviewer, on its own
\* Two active users without a next plan, each with no limit or a limit of 1
\* or 2 for a usage of 1, and with no expire or an expire that has passed;
\* nothing but the reviewer runs.
InitIdem ==
    /\ now = 1
    /\ used_traffic = [u \in Users |-> 1]
    /\ used0 = used_traffic
    /\ online_at = [u \in Users |-> Null]
    /\ admins_usage = [a \in Admins |-> 0]
    /\ node_user_usages = [key \in BucketKeys |-> <<>>]
    /\ node_usages = [key \in NodeKeys |-> <<>>]
    /\ system = <<[up |-> 0, down |-> 0]>>
    /\ usage_coefficient = [s \in Sources |-> CoefDen]
    /\ disable_node_usage = FALSE
    /\ running = [j \in Jobs |-> 0]
    /\ ncycles = 0
    /\ utask = [c \in Cycles |-> IdleU]
    /\ ntask = [c \in Cycles |-> IdleN]
    /\ credited = [u \in Users |-> 0]
    /\ due = [key \in BucketKeys |-> 0]
    /\ status = [u \in Users |-> "active"]
    /\ data_limit \in [Users -> {Null, 1, 2}]
    /\ expire \in [Users -> {Null, 1}]
    /\ next_plans = [u \in Users |-> <<>>]
    /\ xray_users = Users
    /\ rtask = [c \in Cycles |-> IdleR]
    /\ areq = [r \in Reqs |-> IdleA]
    /\ applied = [u \in Users |-> 0]
    /\ InitAux
    /\ webhook = FALSE
    /\ xray_failing = FALSE
    /\ usernames = Users
    /\ notify_flags \in {f \in Flags : f.usage_percent /\ f.days_left
                                          /\ f.data_used_reset}

NextIdem ==
    \/ JobStart("review")
    \/ ReviewSync
    \/ \E c \in Cycles : R_GetActive(c)
    \/ \E c \in Cycles : R_SetStatus(c)
    \/ \E c \in Cycles : R_ReportStatus(c)
    \/ \E c \in Cycles : R_GetOnHold(c)

SpecIdem == InitIdem /\ [][NextIdem]_vars

\* ------------------------------------------------- the reviewer with reminders
RemindStep(c) ==
    \/ R_RemUsage(c)
    \/ R_RemDays(c)

\* A NextPlan that fires on either condition and keeps nothing.
PlainPlan == [data_limit |-> 3, expire |-> Null,
              add_remaining_traffic |-> FALSE, fire_on_either |-> TRUE]

\* Reminder rows written for u1 before: of the 50 percent threshold, and of
\* the 5 days threshold (expiring with the user, at 3).
OldReminders ==
    {[uid |-> "u1", type |-> "data_usage", threshold |-> 50, expires_at |-> Null],
     [uid |-> "u1", type |-> "expiration_date", threshold |-> 5, expires_at |-> 3]}

\* WEBHOOK_ADDRESS is configured. u1 has used half of its limit when it has
\* one; u2 has a limit and no traffic.
InitRemind ==
    /\ now = 0
    /\ used_traffic = [u \in Users |-> IF u = "u1" THEN 1 ELSE 0]
    /\ used0 = used_traffic
    /\ online_at = [u \in Users |-> Null]
    /\ admins_usage = [a \in Admins |-> 0]
    /\ node_user_usages = [key \in BucketKeys |-> <<>>]
    /\ node_usages = [key \in NodeKeys |-> <<>>]
    /\ system = <<[up |-> 0, down |-> 0]>>
    /\ usage_coefficient = [s \in Sources |-> CoefDen]
    /\ disable_node_usage = FALSE
    /\ running = [j \in Jobs |-> 0]
    /\ ncycles = 0
    /\ utask = [c \in Cycles |-> IdleU]
    /\ ntask = [c \in Cycles |-> IdleN]
    /\ credited = [u \in Users |-> 0]
    /\ due = [key \in BucketKeys |-> 0]
    /\ status = [u \in Users |-> "active"]
    /\ data_limit \in {d \in [Users -> {Null, 2}] : d["u2"] = 2}
    /\ expire \in {e \in [Users -> {Null, 1, 3}] : e["u2"] = Null}
    /\ next_plans \in {n \in [Users -> {<<>>, <<PlainPlan>>}] : n["u2"] = <<>>}
    /\ xray_users = Users
    /\ rtask = [c \in Cycles |-> IdleR]
    /\ areq = [r \in Reqs |-> IdleA]
    /\ applied = [u \in Users |-> 0]
    /\ hold = [u \in Users |-> NoHold]
    /\ reminders \in SUBSET OldReminders
    /\ reset_logs = <<>>
    /\ notified = NoNotes
    /\ webhook = TRUE
    /\ xray_failing = FALSE
    /\ usernames = Users
    /\ notify_flags = AllOn

NextRemind ==
    \/ Tick
    \/ JobStart("review")
    \/ ReviewSync
    \/ \E c \in Cycles : ReviewStep(c)
    \/ \E c \in Cycles : RemindStep(c)
    \/ EnvUsage("u1")

SpecRemind == InitRemind /\ [][NextRemind]_vars

\* ------------------------------------------------------------- properties
\* The value users_usage holds for a user (0 when it has no entry).
DeltaOf(users_usage, u) ==
    SumSeq([i \in 1..Len(users_usage) |->
               IF users_usage[i].uid = u THEN users_usage[i].value ELSE 0])

\* The executions of a job's work in progress: its callback, and the
\* coroutines it created that have not finished.
InFlight(j) ==
    (IF running[j] # 0 THEN 1 ELSE 0)
    + Cardinality({c \in Cycles :
          CASE j = "user"   -> Live(utask[c])
            [] j = "node"   -> Live(ntask[c])
            [] j = "review" -> Live(rtask[c])})

\* C1: for each periodic job, at no time are two executions of its work
\* (the callback or the asynchronous body it started) in progress at once.
C1_SingleFlight == \A j \in Jobs : InFlight(j) <= 1

\* What the coroutines in progress have still to add to a user's
\* used_traffic.
Pending(u) ==
    SumSeq([c \in Cycles |->
        IF utask[c].pc = "map" THEN DeltaOf(utask[c].users_usage, u)
        ELSE IF utask[c].pc = "users"
        THEN SumSeq([i \in 1..Len(utask[c].users_usage) |->
                 IF i >= utask[c].i /\ utask[c].users_usage[i].uid = u
                 THEN utask[c].users_usage[i].value ELSE 0])
        ELSE 0])

\* C2: used_traffic of every user is its initial value plus the
\* coefficient-scaled deltas of the successful polls, each applied exactly
\* once: what is not yet applied is pending in a coroutine in progress, and
\* once no coroutine is in progress nothing is missing or counted twice.
C2_NoTrafficLostOrDoubled ==
    \A u \in Users : used_traffic[u] + Pending(u) = used0[u] + credited[u]

\* Both recording cycles are over, one of them polled two sources with
\* traffic of u1, and u1 was credited all of it.
C2_Witness ==
    /\ ncycles = MaxCycles
    /\ running["user"] = 0
    /\ \A c \in Cycles : ~Live(utask[c])
    /\ credited["u1"] >= 3
    /\ used_traffic["u1"] = used0["u1"] + credited["u1"]

Quiescent == running["user"] = 0 /\ \A c \in Cycles : ~Live(utask[c])

\* C3: once the invocations of record_user_stats are over, every
\* (user, node, hour) bucket holds the sum of the deltas they were given
\* for it, whatever the interleaving of their steps.
C3_BucketIsSumOfDeltas ==
    Quiescent =>
        \A key \in BucketKeys : SumSeq(node_user_usages[key]) = due[key]

\* C4: a writer whose bucket creation loses on the unique key raises no
\* error (and so goes on to its increments).
C4_CreationRaceNoError == \A c \in Cycles : utask[c].pc # "error"

\* C5: at most one row per (user, node, hour) key and at most one row per
\* (node, hour) key, in every reachable state.
C5_OneRowPerKey ==
    /\ \A key \in BucketKeys : Len(node_user_usages[key]) <= 1
    /\ \A key \in NodeKeys : Len(node_usages[key]) <= 1

\* Two overlapping invocations both found the row missing; the creation of
\* the second one was rejected, the row of the first one is there.
C5_Witness ==
    \E c \in Cycles :
        /\ utask[c].pc = "error"
        /\ \E key \in BucketKeys : Len(node_user_usages[key]) = 1

\* C6: a recording cycle in which the poll of a source failed still
\* records, as user totals, the sum of the contributions of the sources
\* whose poll succeeded, and its coroutine never creates or changes a
\* bucket row of a source whose poll failed.
C6_PartialFailure ==
    [][ /\ (running["user"] # 0 /\ running'["user"] = 0) =>
             \A u \in Users :
                 DeltaOf(utask'[running["user"]].users_usage, u)
                     = credited'[u] - credited[u]
        /\ \A c \in Cycles :
             (Live(utask[c]) /\ utask'[c] # utask[c]) =>
                 \A key \in BucketKeys :
                     key[2] \in utask[c].failed =>
                         node_user_usages'[key] = node_user_usages[key]
      ]_vars

\* A coroutine of a cycle in which a poll failed is incrementing the bucket
\* of a user at a source whose poll succeeded.
C6_Witness ==
    \E c \in Cycles :
        /\ utask[c].failed # {}
        /\ utask[c].pc = "rus_update"
        /\ \E u \in Users : DeltaOf(utask[c].users_usage, u) > 0

\* C7: a coroutine of a recording cycle issues no write for a user whose
\* delta to be credited is zero: used_traffic and online_at are unchanged
\* and no bucket row of the user is created.
C7_ZeroDeltaNoWrite ==
    [][ \A c \in Cycles :
          (Live(utask[c]) /\ utask'[c] # utask[c]) =>
              \A u \in Users :
                  DeltaOf(utask[c].users_usage, u) = 0 =>
                      /\ used_traffic'[u] = used_traffic[u]
                      /\ online_at'[u] = online_at[u]
                      /\ \A key \in BucketKeys :
                             key[1] = u =>
                                 Len(node_user_usages'[key])
                                     = Len(node_user_usages[key])
      ]_vars

\* C8: in a review cycle, for an active user with a NextPlan row and the
\* (limited, expired, fire_on_either) the reviewer evaluates:
\* (T,F,T), (F,T,T) and (T,T,F) go to the rollover; (T,F,F) goes to the
\* ordinary limited transition; and a review coroutine changes nothing of a
\* user it found neither limited nor expired.
C8_RolloverTruthTable ==
    [][ \A c \in Cycles :
          LET t    == rtask[c]
              user == CurUser(t)
              rows == next_plans[user.uid]
              lim  == user.data_limit # Null /\ user.used_traffic >= user.data_limit
              exp  == user.expire # Null /\ user.expire <= t.now_ts
              foe  == Head(rows).fire_on_either
          IN  /\ (t.pc = "get_plan" /\ rtask'[c] # t /\ rows # <<>>) =>
                   /\ (lim /\ ~exp /\ foe) => rtask'[c].pc = "rbn_find"
                   /\ (~lim /\ exp /\ foe) => rtask'[c].pc = "rbn_find"
                   /\ (lim /\ exp /\ ~foe) => rtask'[c].pc = "rbn_find"
                   /\ (lim /\ ~exp /\ ~foe) =>
                          /\ rtask'[c].pc = "set_status"
                          /\ rtask'[c].new_status = "limited"
              /\ (Live(t) /\ rtask'[c] # t /\ t.idx > 0) =>
                   \A u \in Users :
                       (<<status[u], data_limit[u], expire[u], used_traffic[u],
                          next_plans[u], u \in xray_users>>
                        # <<status'[u], data_limit'[u], expire'[u],
                            used_traffic'[u], next_plans'[u],
                            u \in xray_users'>>)
                       => (u = user.uid /\ (lim \/ exp))
      ]_vars

\* The reviewer found u1 limited and expired with a NextPlan whose
\* fire_on_either is false, and is in the rollover.
C8_Witness ==
    \E c \in Cycles :
        /\ rtask[c].pc = "rbn_find"
        /\ next_plans[CurUser(rtask[c]).uid] # <<>>
        /\ ~Head(next_plans[CurUser(rtask[c]).uid]).fire_on_either
        /\ Limited(CurUser(rtask[c]))
        /\ Expired(CurUser(rtask[c]), rtask[c].now_ts)

\* What a rollover stores for the user record it was given and the NextPlan
\* row it read.
RolloverStored(user, plan) ==
    LET u   == user.uid
        rem == IF user.data_limit = Null THEN 0
               ELSE IF user.data_limit > user.used_traffic
                    THEN user.data_limit - user.used_traffic
                    ELSE 0
    IN  /\ data_limit'[u] = IF plan.add_remaining_traffic
                            THEN plan.data_limit + rem
                            ELSE plan.data_limit
        /\ used_traffic'[u] = 0
        /\ status'[u] = "active"
        /\ expire'[u] = IF plan.expire # Null THEN plan.expire ELSE expire[u]

\* C9: the rollover of a user, given the user record and the NextPlan row
\* it read, stores data_limit = plan.data_limit + max(0, data_limit -
\* used_traffic) when add_remaining_traffic is set and plan.data_limit
\* otherwise, used_traffic 0, status active, overwrites expire exactly when
\* the plan's expire is set, and then leaves no NextPlan row of the user.
C9_RolloverResult ==
    [][ /\ \A c \in Cycles :
             /\ (rtask[c].pc = "rbn_update" /\ rtask'[c].pc = "rbn_delete")
                    => RolloverStored(CurUser(rtask[c]), rtask[c].plan)
             /\ (rtask[c].pc = "rbn_delete" /\ rtask'[c].pc = "rbn_refetch")
                    => next_plans'[CurUser(rtask[c]).uid] = <<>>
        /\ \A r \in Reqs :
             /\ (areq[r].pc = "rbn_update" /\ areq'[r].pc = "rbn_delete")
                    => RolloverStored(areq[r].user, areq[r].plan)
             /\ (areq[r].pc = "rbn_delete" /\ areq'[r].pc = "rbn_refetch")
                    => next_plans'[areq[r].user.uid] = <<>>
        /\ \A u \in Users :
             applied'[u] # applied[u] =>
                 \/ \E c \in Cycles : /\ rtask[c].pc = "rbn_update"
                                       /\ rtask'[c].pc = "rbn_delete"
                                       /\ CurUser(rtask[c]).uid = u
                 \/ \E r \in Reqs : /\ areq[r].pc = "rbn_update"
                                     /\ areq'[r].pc = "rbn_delete"
                                     /\ areq[r].user.uid = u
      ]_vars

\* A rollover of u1 with add_remaining_traffic has carried the 1 unit left
\* of the old limit 2 over to the plan's limit 3, and deleted the row.
C9_Witness ==
    /\ \E c \in Cycles : rtask[c].pc = "rbn_refetch"
    /\ applied["u1"] = 1
    /\ data_limit["u1"] = 4
    /\ used_traffic["u1"] = 0
    /\ status["u1"] = "active"
    /\ next_plans["u1"] = <<>>

\* C10: a NextPlan row is applied to its user at most once, and in no
\* state has the plan been applied while its row still exists.
C10_ConsumedAtomicallyOnce ==
    \A u \in Users :
        /\ applied[u] <= 1
        /\ applied[u] >= 1 => next_plans[u] = <<>>

\* The part of C10 that needs two operations: applied at most once.
AppliedAtMostOnce == \A u \in Users : applied[u] <= 1

C13_DanglingFallsThrough ==
    [][ \A c \in Cycles :
          LET t == rtask[c]
          IN  (/\ t.pc \in {"get_plan", "rbn_find"}
               /\ rtask'[c] # t
               /\ next_plans[CurUser(t).uid] = <<>>)
              => /\ rtask'[c].pc = "set_status"
                 /\ rtask'[c].idx = t.idx
                 /\ applied' = applied
      ]_vars

\* The outcome a position of review() belongs to.
Phase(pc) ==
    IF pc \in {"rbn_find", "rbn_update", "rbn_delete", "rbn_refetch",
               "report_reset"} THEN "rollover"
    ELSE IF pc \in {"set_status", "report_status"} THEN "transition"
    ELSE IF pc \in {"rem_usage", "rem_days"} THEN "thresholds"
    ELSE "none"

\* C12: in a review cycle the loop visits the users in order, each once,
\* and for a user it is in at most one of the rollover, the limited/expired
\* transition and the evaluation of the notification thresholds: it never
\* goes from one to another for the same user.
C12_OutcomesExclusive ==
    [][ \A c \in Cycles :
          LET t == rtask[c]
              n == rtask'[c]
          IN  (Live(t) /\ Live(n) /\ n # t /\ t.idx > 0 /\ n.idx > 0) =>
                  /\ n.idx >= t.idx
                  /\ (n.idx = t.idx /\ Phase(t.pc) # "none") =>
                         Phase(n.pc) = Phase(t.pc)
                  /\ (n.idx = t.idx /\ Phase(t.pc) = "none") =>
                         Phase(n.pc) # "thresholds"
      ]_vars

\* One cycle has rolled u1 over, and another one, later, is evaluating the
\* thresholds of u1.
C12_Witness ==
    /\ applied["u1"] = 1
    /\ \E c \in Cycles :
          /\ rtask[c].pc \in {"rem_usage", "rem_days"}
          /\ CurUser(rtask[c]).uid = "u1"

\* C14: the reviewer persists status limited or expired only for a user
\* whose stored record, at the moment of the write, is active and satisfies
\* the condition of that status.
C14_NoStaleTransition ==
    [][ \A c \in Cycles :
          LET t == rtask[c]
              u == CurUser(t).uid
          IN  (t.pc = "set_status" /\ rtask'[c].pc = "report_status") =>
                  /\ status[u] = "active"
                  /\ t.new_status = "limited" =>
                         (data_limit[u] # Null /\ used_traffic[u] >= data_limit[u])
                  /\ t.new_status = "expired" =>
                         (expire[u] # Null /\ expire[u] <= now)
      ]_vars

\* The activation condition of an on_hold user u, on the stored record, for
\* a cycle whose clock reads n.
Activates(u, n) ==
    LET base == IF hold[u].edit_at # Null THEN hold[u].edit_at
                ELSE hold[u].created_at
    IN  \/ online_at[u] # Null /\ online_at[u] >= base
        \/ hold[u].on_hold_timeout # Null /\ hold[u].on_hold_timeout <= n

C16_ActivatedByNextCycle ==
    [][ \A c \in Cycles :
          (rtask[c].pc \notin {"idle", "done", "error"}
             /\ rtask'[c].pc \in {"done", "error"}) =>
                \A u \in rtask[c].due_hold : status'[u] = "active"
      ]_vars

\* C17: when the reviewer finds no live reminder for the usage threshold a
\* user has reached, the notification is dispatched and the reminder row of
\* that threshold is stored, so that later cycles find it and stay silent;
\* with a live reminder nothing is dispatched.
C17_FiredOnceWhileLive ==
    [][ \A c \in Cycles :
          LET t == rtask[c]
              u == CurUser(t).uid
          IN  (t.pc = "rem_usage" /\ rtask'[c] # t) =>
                 IF \E r \in reminders :
                       /\ r.uid = u /\ r.type = "data_usage" /\ r.threshold = t.th
                       /\ (r.expires_at = Null \/ r.expires_at > now)
                 THEN notified'[<<"usage_percent", u>>] =
                         notified[<<"usage_percent", u>>]
                 ELSE /\ notified'[<<"usage_percent", u>>] > 0
                      /\ \E r \in reminders' :
                            r.uid = u /\ r.type = "data_usage" /\ r.threshold = t.th
      ]_vars

\* C18: the usage threshold the reviewer evaluates for a user is the highest
\* configured percent that the usage percent has reached, and the pass
\* dispatches exactly one data-usage notification for it when it has no
\* live reminder, and none otherwise.
C18_HighestThresholdFires ==
    [][ \A c \in Cycles :
          LET t    == rtask[c]
              user == CurUser(t)
              pct  == (user.used_traffic * 100) \div user.data_limit
              sent == notified'[<<"usage_percent", user.uid>>]
                         - notified[<<"usage_percent", user.uid>>]
          IN  (t.pc = "rem_usage" /\ rtask'[c] # t) =>
                 /\ t.th \in PercentThresholds
                 /\ t.th <= pct
                 /\ \A p \in PercentThresholds : p <= pct => p <= t.th
                 /\ sent = IF LiveReminder(user.uid, "data_usage", t.th)
                           THEN 0 ELSE 1
      ]_vars

FlagOf(kind) ==
    CASE kind \in {"limited", "expired", "enabled"} -> notify_flags.status_change
      [] kind \in {"reset_by_next", "usage_reset"}  -> notify_flags.data_used_reset
      [] kind = "usage_percent"                     -> notify_flags.usage_percent
      [] kind = "days_left"                         -> notify_flags.days_left

\* C20: a notification is handed to the transport only when the flag of its
\* kind is on.
C20_FlagGate ==
    [][ \A k \in NoteKinds, u \in Users :
          notified'[<<k, u>>] > notified[<<k, u>>] => FlagOf(k)
      ]_vars

\* C21: a review cycle ends only when every active user and every on_hold
\* user of its lists has been reviewed: it never ends while users of the
\* active list or of the on_hold list are still ahead of it.
C21_ReviewerIsolation ==
    [][ \A c \in Cycles :
          LET t == rtask[c]
          IN  (Live(t) /\ rtask'[c].pc \in {"done", "error"}) =>
                 \/ t.pc = "get_on_hold"
                 \/ t.pc = "hold_report" /\ t.idx = Len(t.on_hold_users)
      ]_vars

OwnedSum(f, a) ==
    SumSeq([i \in 1..Len(UserOrder) |->
               IF user_admin[UserOrder[i]] = a THEN f[UserOrder[i]] ELSE 0])

\* What the recording tasks in progress still owe to the admin a: the
\* deltas of its users, until the task has incremented the admin.
PendingAdmin(a) ==
    SumSeq([c \in Cycles |->
        LET t    == utask[c]
            owed == OwnedSum([u \in Users |-> DeltaOf(t.users_usage, u)], a)
        IN  IF t.pc \in {"map", "users"} THEN owed
            ELSE IF t.pc = "admins"
                    /\ \E j \in t.i..Len(t.admin_usage) : t.admin_usage[j].uid = a
            THEN owed
            ELSE 0])

\* C23: each recording cycle increments an admin's users_usage by the sum of
\* the deltas it adds to the used_traffic of the admin's users: counting
\* what the cycles in progress have still to write, users_usage minus the
\* sum of the owned users' used_traffic keeps its initial value.
C23_AdminFollowsUsers ==
    \A a \in Admins :
       (admins_usage[a] + PendingAdmin(a))
          - OwnedSum([u \in Users |-> used_traffic[u] + Pending(u)], a)
       = 0 - OwnedSum(used0, a)

\* Two recording cycles have credited the admin, and no cycle is in progress.
C23_Witness ==
    /\ Quiescent
    /\ admins_usage["a1"] >= 2
    /\ admins_usage["a1"] = used_traffic["u1"] - used0["u1"]
    /\ used_traffic["u2"] > used0["u2"]

\* The raw delta that the source s reported for the user u to the task t.
RawOf(t, s, u) ==
    SumSeq([j \in 1..Len(t.api_params[s]) |->
               IF t.api_params[s][j].uid = u THEN t.api_params[s][j].value
               ELSE 0])

\* C24: the delta that a recording cycle holds for a user is the sum, over
\* the sources it polled, of the raw delta of the source multiplied by the
\* coefficient of that node and truncated to an integer, the master source
\* counting with the coefficient 1.
C24_ScaledMerge ==
    \A c \in Cycles :
       utask[c].pc = "map" =>
          \A u \in Users :
             DeltaOf(utask[c].users_usage, u) =
                SumSeq([i \in 1..Len(SourceOrder) |->
                   LET src == SourceOrder[i]
                   IN  IF src \notin DOMAIN utask[c].api_params THEN 0
                       ELSE IF src = Master THEN RawOf(utask[c], src, u)
                       ELSE (RawOf(utask[c], src, u) * usage_coefficient[src])
                               \div CoefDen])

\* The master and a node with the coefficient 2 reported one unit each for
\* u1: the cycle holds 3 for u1.
C24_Witness ==
    \E c \in Cycles :
       /\ utask[c].pc = "map"
       /\ "n1" \in DOMAIN utask[c].api_params
       /\ usage_coefficient["n1"] = 2 * CoefDen
       /\ RawOf(utask[c], Master, "u1") = 1
       /\ RawOf(utask[c], "n1", "u1") = 1
       /\ DeltaOf(utask[c].users_usage, "u1") = 3

\* C25: a step that sets a user's used_traffic to 0 finds a reset-log row
\* of that user holding the value the counter had before the step, and the
\* rows of the reset log are only ever appended.
C25_ResetLoggedFirst ==
    [][ /\ \A u \in Users :
              (used_traffic[u] > 0 /\ used_traffic'[u] = 0) =>
                  \E i \in 1..Len(reset_logs) :
                     /\ reset_logs[i].uid = u
                     /\ reset_logs[i].used_traffic_at_reset = used_traffic[u]
        /\ Len(reset_logs') >= Len(reset_logs)
        /\ SubSeq(reset_logs', 1, Len(reset_logs)) = reset_logs
      ]_vars

\* C26: used_traffic is never negative, and a step that decreases the
\* used_traffic of a user is the zeroing step of a reset or of a rollover
\* of that user.
C26_UsedTrafficMonotonic ==
    [][ \A u \in Users :
          /\ used_traffic[u] >= 0
          /\ used_traffic'[u] >= 0
          /\ used_traffic'[u] < used_traffic[u] =>
                /\ used_traffic'[u] = 0
                /\ \/ \E r \in Reqs : /\ areq[r].pc \in {"rst_update", "rbn_update"}
                                       /\ areq[r].user.uid = u
                                       /\ areq'[r] # areq[r]
                   \/ \E c \in Cycles : /\ rtask[c].pc = "rbn_update"
                                         /\ CurUser(rtask[c]).uid = u
                                         /\ rtask'[c] # rtask[c]
      ]_vars

\* u1 was credited, reset by the admin, and credited again.
C26_Witness ==
    /\ reset_logs # <<>>
    /\ \E r \in Reqs : areq[r].pc = "done"
    /\ used_traffic["u1"] = 2

\* C27: no step removes a usage bucket row or decreases its counter, and a
\* step that creates the row of a key belongs to a cycle that observed
\* traffic for that key.
C27_BucketsIncrementOnly ==
    [][ /\ \A key \in BucketKeys :
              LET old == node_user_usages[key]
                  new == node_user_usages'[key]
              IN  /\ Len(new) >= Len(old)
                  /\ \A i \in 1..Len(old) : new[i] >= old[i]
                  /\ Len(new) > Len(old) =>
                        \E c \in Cycles :
                           /\ utask[c].pc = "rus_create"
                           /\ NodeAt(utask[c]) = key[2]
                           /\ utask[c].created_at = key[3]
                           /\ RawOf(utask[c], key[2], key[1]) > 0
        /\ \A key \in NodeKeys :
              LET old == node_usages[key]
                  new == node_usages'[key]
              IN  /\ Len(new) >= Len(old)
                  /\ \A i \in 1..Len(old) :
                        new[i].up >= old[i].up /\ new[i].down >= old[i].down
                  /\ Len(new) > Len(old) =>
                        \E c \in Cycles :
                           LET t == ntask[c]
                           IN  /\ t.pc = "rns_create"
                               /\ NodeAt(t) = key[1]
                               /\ t.created_at = key[2]
                               /\ t.api_params[key[1]][t.i].up
                                     + t.api_params[key[1]][t.i].down > 0
      ]_vars

\* The bucket of u1 on the master for the hour 0 was created by one cycle
\* and incremented by two.
C27_Witness ==
    node_user_usages[<<"u1", Master, 0>>] = <<2 * CoefDen>>

\* C28: the hour that record_user_stats and record_node_stats take for
\* their bucket is the time of recording truncated to the top of its clock
\* hour, and the rows they create or increment are those of that hour.
C28_HourTruncation ==
    [][ /\ \A c \in Cycles :
              LET t == utask[c]
                  n == utask'[c]
              IN  /\ (t.pc = "rus_get" /\ n.pc \in {"rus_create", "rus_update"}) =>
                        /\ n.created_at % HourLen = 0
                        /\ n.created_at <= now
                        /\ now < n.created_at + HourLen
                  /\ (t.pc \in {"rus_create", "rus_update"} /\ n # t) =>
                        \A key \in BucketKeys :
                           node_user_usages'[key] # node_user_usages[key] =>
                              key[3] = t.created_at
        /\ \A c \in Cycles :
              LET t == ntask[c]
                  n == ntask'[c]
              IN  /\ (t.pc = "rns_find" /\ n.pc \in {"rns_create", "rns_update"}) =>
                        /\ n.created_at % HourLen = 0
                        /\ n.created_at <= now
                        /\ now < n.created_at + HourLen
                  /\ (t.pc \in {"rns_create", "rns_update"} /\ n # t) =>
                        \A key \in NodeKeys :
                           node_usages'[key] # node_usages[key] =>
                              key[2] = t.created_at
      ]_vars

\* One cycle has put its delta for u1 into the master's bucket of the hour
\* 0 and is over; u1 was last credited at the instant 1, and the other
\* cycle is about to increment the same bucket.
C28_Witness ==
    \E c \in Cycles :
       /\ utask[c].pc = "rus_update"
       /\ utask[c].created_at = 0
       /\ NodeAt(utask[c]) = Master
       /\ utask[c].api_params[Master][utask[c].i].uid = "u1"
       /\ online_at["u1"] = 1
       /\ node_user_usages[<<"u1", Master, 0>>] = <<CoefDen>>
       /\ \E d \in Cycles : utask[d].pc = "done"

\* C29: every started callback of a recording job returns, and every
\* coroutine it left to the event loop comes to its end, returned or
\* raised.
C29_RecordingTerminates ==
    /\ \A j \in {"user", "node"} : (running[j] # 0) ~> (running[j] = 0)
    /\ \A c \in Cycles :
          /\ Live(utask[c]) ~> ~Live(utask[c])
          /\ Live(ntask[c]) ~> ~Live(ntask[c])

\* A user-usage invocation to which the node contributed nothing has come
\* to its end with the master's delta written.
C29_Witness ==
    /\ \E c \in Cycles : utask[c].pc = "done"
    /\ \A c \in Cycles : ~Live(utask[c])
    /\ ncycles = 1
    /\ used_traffic["u1"] = used0["u1"] + 1
    /\ node_user_usages[<<"u1", "n1", 0>>] = <<>>
    /\ node_user_usages[<<"u1", Master, 0>>] # <<>>

\* C30: a review cycle that begins after another one has come to its end,
\* with no change of a user record or of the time in between, changes no
\* status and no field of a user and dispatches no notification.
C30_SecondCycleChangesNothing ==
    [][ \A c \in Cycles :
          (rtask[c].second /\ rtask'[c] # rtask[c]) =>
             /\ UNCHANGED <<status, data_limit, expire, used_traffic, next_plans>>
             /\ notified' = notified
      ]_vars

\* --------------------------------------- the operations filtered by an admin
\* The admin names of a request: none given, the admin a1, and a name that
\* no row of admins carries.
AdminNames == {"", "a1", "ghost"}

\* db.get_admin(username): the row of admins, or None.
get_admin(name) == IF name \in Admins THEN name ELSE NoAdmin

\* get_all_users_usages: user_filter stays {} unless an admin was named and
\* found; users_col.find(user_filter).
UserFilter(name) ==
    IF name # "" /\ get_admin(name) # NoAdmin
    THEN {u \in Users : user_admin[u] = get_admin(name)}
    ELSE Users

\* reset_all_users_data_usage: the filter of the update_many that runs, the
\* owned users of an admin found, every user when no name is given.
ResetFilter(name) ==
    IF name # ""
    THEN {u \in Users : get_admin(name) # NoAdmin /\ user_admin[u] = get_admin(name)}
    ELSE Users

\* $sum of used_traffic over the rows with the keys K.
RECURSIVE SumKeys(_)
SumKeys(K) ==
    IF K = {} THEN 0
    ELSE LET k == CHOOSE x \in K : TRUE
         IN  SumSeq(node_user_usages[k]) + SumKeys(K \ {k})

\* $match user_id $in ids, created_at in the range (every hour of the model);
\* $group by node_id with $sum of used_traffic.
UsagePipeline(ids) ==
    {[node_id |-> s,
      total_usage |-> SumKeys({k \in BucketKeys : k[1] \in ids /\ k[2] = s})] :
     s \in {t \in Sources : \E u \in ids, h \in Hours :
                               node_user_usages[<<u, t, h>>] # <<>>}}

\* GET /users/usage?admin=name: get_admin and users_col.find(user_filter);
\* "if not user_ids: return []".
Q_Start(r, name) ==
    /\ areq[r].pc = "idle"
    /\ areq' = [areq EXCEPT ![r] =
           IF UserFilter(name) = {}
           THEN [IdleA EXCEPT !.pc = "done", !.admin = name]
           ELSE [IdleA EXCEPT !.pc = "q_aggregate", !.admin = name,
                              !.ids = UserFilter(name)]]
    /\ UNCHANGED <<auxVars, now, userDb, recVars, schedVars, planDb, xray_users,
                   rtask, applied>>

\* usages_col.aggregate(pipeline), and the rows are returned.
Q_Aggregate(r) ==
    LET a == areq[r]
    IN  /\ a.pc = "q_aggregate"
        /\ areq' = [areq EXCEPT ![r] =
               [a EXCEPT !.pc = "done", !.resp = UsagePipeline(a.ids)]]
        /\ UNCHANGED <<auxVars, now, userDb, recVars, schedVars, planDb,
                       xray_users, rtask, applied>>

\* POST /users/reset by the admin name: get_admin, and no update_many when
\* the name is given and not found.
RA_Start(r, name) ==
    /\ areq[r].pc = "idle"
    /\ areq' = [areq EXCEPT ![r] =
           IF name # "" /\ get_admin(name) = NoAdmin
           THEN [IdleA EXCEPT !.pc = "done", !.admin = name]
           ELSE [IdleA EXCEPT !.pc = "ra_update", !.admin = name]]
    /\ UNCHANGED <<auxVars, now, userDb, recVars, schedVars, planDb, xray_users,
                   rtask, applied>>

\* users_col.update_many(filter, $set used_traffic 0).
RA_Update(r) ==
    LET a == areq[r]
    IN  /\ a.pc = "ra_update"
        /\ used_traffic' = [u \in Users |->
               IF u \in ResetFilter(a.admin) THEN 0 ELSE used_traffic[u]]
        /\ areq' = [areq EXCEPT ![r] =
               [a EXCEPT !.pc = "done", !.ids = ResetFilter(a.admin)]]
        /\ UNCHANGED <<auxVars, now, online_at, recVars, schedVars, planDb,
                       xray_users, rtask, applied>>

\* Two users with traffic, and the rows of node_user_usages that one earlier
\* hour left: each user has a row of one unit on the master, on the node n1,
\* or none.
InitQuery ==
    /\ now = MaxNow
    /\ used_traffic \in [Users -> {1, 2}]
    /\ used0 = used_traffic
    /\ online_at = [u \in Users |-> Null]
    /\ admins_usage = [a \in Admins |-> 0]
    /\ node_user_usages \in
           {f \in [BucketKeys -> {<<>>, <<1>>}] :
               \A k \in BucketKeys : k[3] # 0 => f[k] = <<>>}
    /\ node_usages = [key \in NodeKeys |-> <<>>]
    /\ system = <<[up |-> 0, down |-> 0]>>
    /\ usage_coefficient = [s \in Sources |-> CoefDen]
    /\ disable_node_usage = FALSE
    /\ running = [j \in Jobs |-> 0]
    /\ ncycles = 0
    /\ utask = [c \in Cycles |-> IdleU]
    /\ ntask = [c \in Cycles |-> IdleN]
    /\ credited = [u \in Users |-> 0]
    /\ due = [key \in BucketKeys |-> 0]
    /\ status = [u \in Users |-> "active"]
    /\ data_limit = [u \in Users |-> Null]
    /\ expire = [u \in Users |-> Null]
    /\ next_plans = [u \in Users |-> <<>>]
    /\ xray_users = Users
    /\ rtask = [c \in Cycles |-> IdleR]
    /\ areq = [r \in Reqs |-> IdleA]
    /\ applied = [u \in Users |-> 0]
    /\ InitAux
    /\ webhook = FALSE
    /\ xray_failing = FALSE
    /\ usernames = Users
    /\ notify_flags = AllOn

NextQuery ==
    \/ \E r \in Reqs, name \in AdminNames : Q_Start(r, name)
    \/ \E r \in Reqs : Q_Aggregate(r)
    \/ \E r \in Reqs, name \in AdminNames : RA_Start(r, name)
    \/ \E r \in Reqs : RA_Update(r)
    \/ EnvUsage("u1")

SpecQuery == InitQuery /\ [][NextQuery]_vars

\* C31: a usage query or a reset of all users that is filtered by an admin
\* name which no admin carries answers with no rows, and has selected (read
\* or modified) no user.
C31_MissingAdminNoRows ==
    \A r \in Reqs :
        (areq[r].pc = "done" /\ areq[r].admin # ""
                             /\ get_admin(areq[r].admin) = NoAdmin)
            => (areq[r].resp = {} /\ areq[r].ids = {})

\* ------------------------------------------------------ the creation of a user
\* The outcomes of POST /user: the user, 400 and 409.
CreateOutcomes == {"created", "bad_request", "conflict"}

\* The UserCreate of a request: the fields of the model.
NewUser(u, dl) ==
    [uid |-> u, used_traffic |-> 0, data_limit |-> dl, expire |-> Null,
     next_plan |-> FALSE]

\* What db.create_user raises, by its message: users has a unique index on
\* username, and insert_one of a username that has a row raises
\* DuplicateKeyError; any other failure carries a message of its own; the
\* empty message stands for no exception.
create_user_raises(u, fails) ==
    IF u \in usernames THEN "E11000 duplicate key error collection: users"
    ELSE IF fails THEN "validation failed" ELSE ""

\* "duplicate" in str(e).lower()
MentionsDuplicate(e) ==
    e \in {"E11000 duplicate key error collection: users"}

\* The slip of a handler that answers every failure with 400.
HttpOfAlways400(e) ==
    IF e = "" THEN "created" ELSE "bad_request"

\* except Exception: 409 when the message mentions a duplicate, else 400.
HttpOf(e) ==
    IF e = "" THEN "created"
    ELSE IF MentionsDuplicate(e) THEN "conflict" ELSE "bad_request"

\* POST /user: a proxy type that is disabled on the server is answered with
\* 400 before anything is written.
C_Start(r, u, dl, enabled) ==
    /\ areq[r].pc \in {"idle"} \cup CreateOutcomes
    /\ areq' = [areq EXCEPT ![r] =
           [IdleA EXCEPT !.pc = IF enabled THEN "create" ELSE "bad_request",
                         !.user = NewUser(u, dl)]]
    /\ UNCHANGED <<auxVars, now, userDb, recVars, schedVars, planDb, xray_users,
                   rtask, applied>>

\* db.create_user and the answer; the new user is provisioned by the
\* background task xray.operations.add_user.
C_Create(r, fails) ==
    LET a == areq[r]
        u == a.user.uid
        e == create_user_raises(u, fails)
    IN  /\ a.pc = "create"
        /\ areq' = [areq EXCEPT ![r] = [a EXCEPT !.pc = HttpOf(e)]]
        /\ IF e = ""
           THEN /\ usernames' = usernames \cup {u}
                /\ status' = [status EXCEPT ![u] = "active"]
                /\ used_traffic' = [used_traffic EXCEPT ![u] = 0]
                /\ data_limit' = [data_limit EXCEPT ![u] = a.user.data_limit]
                /\ expire' = [expire EXCEPT ![u] = Null]
                /\ online_at' = [online_at EXCEPT ![u] = Null]
                /\ xray_users' = add_user(u)
           ELSE UNCHANGED <<usernames, status, used_traffic, data_limit, expire,
                            online_at, xray_users>>
        /\ UNCHANGED <<auxVars, now, admins_usage, node_user_usages, nodeDb,
                       usage_coefficient, disable_node_usage, webhook,
                       notify_flags, xray_failing, utask, ntask, ghostVars,
                       schedVars, next_plans, rtask, applied>>

\* The user u1 has a row and u2 has none (the fields kept for u2 are those
\* of no document); u1 has used one or two units.
InitCreate ==
    /\ now = 0
    /\ used_traffic \in {f \in [Users -> {0, 1, 2}] : f["u1"] > 0 /\ f["u2"] = 0}
    /\ used0 = used_traffic
    /\ online_at = [u \in Users |-> Null]
    /\ admins_usage = [a \in Admins |-> 0]
    /\ node_user_usages = [key \in BucketKeys |-> <<>>]
    /\ node_usages = [key \in NodeKeys |-> <<>>]
    /\ system = <<[up |-> 0, down |-> 0]>>
    /\ usage_coefficient = [s \in Sources |-> CoefDen]
    /\ disable_node_usage = FALSE
    /\ running = [j \in Jobs |-> 0]
    /\ ncycles = 0
    /\ utask = [c \in Cycles |-> IdleU]
    /\ ntask = [c \in Cycles |-> IdleN]
    /\ credited = [u \in Users |-> 0]
    /\ due = [key \in BucketKeys |-> 0]
    /\ status \in {f \in [Users -> {"active", "limited"}] : f["u2"] = "active"}
    /\ data_limit \in {d \in [Users -> {Null, 2}] : d["u2"] = Null}
    /\ expire = [u \in Users |-> Null]
    /\ next_plans = [u \in Users |-> <<>>]
    /\ xray_users = {u \in {"u1"} : status[u] = "active"}
    /\ rtask = [c \in Cycles |-> IdleR]
    /\ areq = [r \in Reqs |-> IdleA]
    /\ applied = [u \in Users |-> 0]
    /\ InitAux
    /\ webhook = FALSE
    /\ xray_failing = FALSE
    /\ usernames = {"u1"}
    /\ notify_flags = AllOn

NextCreate ==
    \/ \E r \in Reqs, u \in Users, dl \in {Null, 3}, enabled \in BOOLEAN :
          C_Start(r, u, dl, enabled)
    \/ \E r \in Reqs, fails \in BOOLEAN : C_Create(r, fails)
    \/ EnvUsage("u1")

SpecCreate == InitCreate /\ [][NextCreate]_vars

\* The stored fields of the user u.
StoredUser(u) == <<status[u], used_traffic[u], data_limit[u], expire[u],
                   online_at[u], next_plans[u], u \in xray_users>>

\* C32 as stated: a creation request for a username that has a row is
\* answered with 409, whatever else the request holds.
C32_ExistingAlways409 ==
    [][\A r \in Reqs :
          (areq'[r] # areq[r] /\ areq'[r].pc \in CreateOutcomes
                              /\ areq'[r].user.uid \in usernames)
              => areq'[r].pc = "conflict"]_vars

\* C32: a creation request whose protocols are all enabled is answered with
\* 409 exactly when its username has a row at the insert, any other failure
\* of the creation is answered with 400, and the answer 409 leaves the
\* existing user and the set of usernames unchanged.
C32_DuplicateDistinct ==
    [][\A r \in Reqs :
          (areq[r].pc = "create" /\ areq'[r].pc # "create")
              => /\ areq'[r].pc = "conflict" <=> areq[r].user.uid \in usernames
                 /\ areq'[r].pc = "bad_request" =>
                        /\ areq[r].user.uid \notin usernames
                        /\ UNCHANGED usernames
                 /\ areq'[r].pc = "conflict" =>
                        /\ UNCHANGED usernames
                        /\ StoredUser(areq[r].user.uid)'
                              = StoredUser(areq[r].user.uid)]_vars

\* A second creation of u2, after the first made its row, was answered 409,
\* and u2 keeps the limit of the first.
C32_Witness ==
    \E r \in Reqs :
        /\ areq[r].pc = "conflict"
        /\ areq[r].user.uid = "u2"
        /\ areq[r].user.data_limit = Null
        /\ data_limit["u2"] = 3
        /\ usernames = Users

\* The status-change events of the kinds limited and expired.
StatusNotes(n) == [u \in Users |-> <<n[<<"limited", u>>], n[<<"expired", u>>]>>]

LinkOf(rows, link) ==
    SumSeq([i \in 1..Len(rows) |->
               IF link = "up" THEN rows[i].up ELSE rows[i].down])

\* The same over the rows of node_usages with the keys K.
RECURSIVE BucketLinks(_, _)
BucketLinks(K, link) ==
    IF K = {} THEN 0
    ELSE LET k == CHOOSE x \in K : TRUE
         IN  LinkOf(node_usages[k], link) + BucketLinks(K \ {k}, link)

\* C34: with per-node recording on, once the node-usage cycles are over the
\* increments of the per-node hour buckets add up to the increments of the
\* system totals, for the uplink and for the downlink (both start at zero).
C34_NodeBucketsAddUp ==
    (/\ running["node"] = 0
     /\ \A c \in Cycles : ~Live(ntask[c])
     /\ ~disable_node_usage)
        => \A link \in {"up", "down"} :
              BucketLinks(NodeKeys, link) = LinkOf(system, link)

\* C35: with per-node recording on, once the recording cycles are over and
\* none of them raised, the increments of a user's per-node hour buckets add
\* up to the increment of its used_traffic (the buckets are kept in units of
\* 1/CoefDen).
C35_LedgerMatchesTotal ==
    (/\ Quiescent
     /\ ~disable_node_usage
     /\ \A c \in Cycles : utask[c].pc # "error")
        => \A u \in Users :
              SumKeys({k \in BucketKeys : k[1] = u})
                 = CoefDen * (used_traffic[u] - used0[u])

\* ------------------------------------------- review cycles that keep running
\* The interval trigger fires the review job again and again: past the
\* cycles counted by ncycles, a run takes the place of a review() that has
\* returned or raised.
ReviewAgain ==
    /\ running["review"] = 0
    /\ ncycles = MaxCycles
    /\ \E c \in Cycles :
          /\ rtask[c].pc \in {"done", "error"}
          /\ running' = [running EXCEPT !["review"] = c]
    /\ UNCHANGED <<revVars, now, dbVars, cfgVars, ncycles, utask, ntask, ghostVars>>

\* Two active users without a next plan at the instant 1: u1 has used half
\* of its limit when it has one, u2 has reached its limit when it has one;
\* an expire is in the past (1) or two days ahead (3). WEBHOOK_ADDRESS is
\* set or not, and reminder rows of u1 may be left from before.
InitLive ==
    /\ now = 1
    /\ used_traffic = [u \in Users |-> IF u = "u1" THEN 1 ELSE 2]
    /\ used0 = used_traffic
    /\ online_at = [u \in Users |-> Null]
    /\ admins_usage = [a \in Admins |-> 0]
    /\ node_user_usages = [key \in BucketKeys |-> <<>>]
    /\ node_usages = [key \in NodeKeys |-> <<>>]
    /\ system = <<[up |-> 0, down |-> 0]>>
    /\ usage_coefficient = [s \in Sources |-> CoefDen]
    /\ disable_node_usage = FALSE
    /\ running = [j \in Jobs |-> 0]
    /\ ncycles = 0
    /\ utask = [c \in Cycles |-> IdleU]
    /\ ntask = [c \in Cycles |-> IdleN]
    /\ credited = [u \in Users |-> 0]
    /\ due = [key \in BucketKeys |-> 0]
    /\ status = [u \in Users |-> "active"]
    /\ data_limit \in [Users -> {Null, 2}]
    /\ expire \in [Users -> {Null, 1, 3}]
    /\ next_plans = [u \in Users |-> <<>>]
    /\ xray_users = Users
    /\ rtask = [c \in Cycles |-> IdleR]
    /\ areq = [r \in Reqs |-> IdleA]
    /\ applied = [u \in Users |-> 0]
    /\ hold = [u \in Users |-> NoHold]
    /\ reminders \in SUBSET OldReminders
    /\ reset_logs = <<>>
    /\ notified = NoNotes
    /\ webhook \in BOOLEAN
    /\ xray_failing = FALSE
    /\ usernames = Users
    /\ notify_flags = AllOn

NextLive ==
    \/ JobStart("review")
    \/ ReviewAgain
    \/ ReviewSync
    \/ \E c \in Cycles : R_GetActive(c)
    \/ \E c \in Cycles : R_SetStatus(c)
    \/ \E c \in Cycles : R_ReportStatus(c)
    \/ \E c \in Cycles : R_GetOnHold(c)
    \/ \E c \in Cycles : RemindStep(c)

\* The trigger keeps firing (the review cycles keep running), the callback
\* of a started job runs, and the event loop runs every review() that is
\* ready: each awaited call returns or raises.
FairLive ==
    /\ WF_vars(JobStart("review"))
    /\ WF_vars(ReviewAgain)
    /\ WF_vars(ReviewSync)
    /\ \A c \in Cycles :
          WF_vars(R_GetActive(c) \/ R_SetStatus(c) \/ R_ReportStatus(c)
                     \/ R_GetOnHold(c) \/ RemindStep(c))

SpecLive == InitLive /\ [][NextLive]_vars /\ FairLive

C37_ReviewFrame ==
    [][rtask' # rtask =>
          \A u \in Users :
             /\ status[u] \in {"disabled", "limited", "expired"} =>
                   /\ status'[u] = status[u]
                   /\ used_traffic'[u] = used_traffic[u]
                   /\ data_limit'[u] = data_limit[u]
                   /\ expire'[u] = expire[u]
                   /\ next_plans'[u] = next_plans[u]
             /\ status'[u] # status[u] =>
                   \/ status[u] = "active" /\ status'[u] \in {"limited", "expired"}
                   \/ status[u] = "on_hold" /\ status'[u] = "active"
      ]_vars

\* C38: the active-next operation answers 404 only from a step that found no
\* next plan and has changed no field of the user, and a request that has
\* applied a NextPlan row returns the updated user.
C38_ActiveNextAnswer ==
    [][\A r \in Reqs :
          LET a == areq[r]
              b == areq'[r]
          IN  (b # a /\ b.pc \in {"not_found", "raised", "done"}) =>
                 /\ b.pc = "not_found" =>
                       /\ a.pc \in {"idle", "rbn_find"}
                       /\ UNCHANGED <<userDb, planDb>>
                 /\ a.pc = "rbn_refetch" => b.pc = "done"
      ]_vars
====
